---- MODULE Spec2Model ----
(***************************************************************************)
(* Model of the configuration variable pipeline of Migration-Assistant:    *)
(*   - run_wizard / save_configuration, get_input, validate_uuid and       *)
(*     collect_peer_addresses of the setup wizard (setup_wizard.py)        *)
(*   - the YAML auto-repair tool auto_fix_yaml_file (yaml-autofix.py)      *)
(*   - the YAML diagnostic diagnose_yaml_file (yaml-diagnostic.py)         *)
(*   - the template substitution _substitute and the loading of the merged *)
(*     variables (config_template.py)                                      *)
(*   - the variable validator (validate_variables.py)                      *)
(*   - the variable renamer (standardize_variables.py)                     *)
(* Each tool is a short-lived process of its own, so each has its own      *)
(* specification (SpecWizard, SpecFix, SpecSub, ...) over the shared       *)
(* variables; the variables of the other tools stay at their initial       *)
(* values.                                                                 *)
(***************************************************************************)
EXTENDS Integers, Sequences, FiniteSets, TLC

VARIABLES
    \* ---- setup wizard (setup_wizard.py) ----
    diskConfig,     \* the file self.config_file: [exists, data], data a sequence of lines
    diskBackups,    \* the directory config_backups: backup timestamp -> [exists, data]
    diskTemplate,   \* the file config.template.yaml: [exists, data]
    clock,          \* datetime.now(), in seconds
    existing,       \* the value load_existing_config returned
    config,         \* self.config: [variables, secrets]
    wpc,            \* position of run_wizard
    wfield,         \* index in Prompts of the get_input call being answered
    wresult,        \* "none" while running, "true"/"false" returned, "raised" when an exception escapes
    whist,          \* history: disk state before the run, pre-save content, this save's backup
    \* ---- YAML auto-repair (yaml-autofix.py) ----
    fixFile,        \* the file config_file: [exists, data], data a sequence of characters
    fixBackup,      \* the file config_file + ".backup"
    fpc,            \* position of auto_fix_yaml_file
    fixText,        \* the local file_content
    fixesApplied,   \* the local fixes_applied
    fixResult,      \* "none", "true", "false", "raised"
    fixRuns,        \* number of runs of the tool started so far
    fhist,          \* history: disk state before the first run and before/after each run
    \* ---- template substitution (config_template.py) ----
    template,       \* the argument template
    allVars,        \* the argument all_vars, in iteration order: sequence of <<key, value>>
    mode,           \* the argument mode
    data,           \* the local data
    spc,            \* position of _substitute
    skey,           \* index in allVars of the next loop iteration
    subResult,      \* the returned string
    \* ---- loading the merged variables (config_template.py, validate_variables.py) ----
    configDoc,      \* what yaml.safe_load returns for the configuration file
    loader,         \* "template": _load_all_vars, "validator": load_config_variables
    lpc,            \* position of the loader
    merged,         \* the merged mapping, in key order: sequence of <<key, value>>
    loadResult,     \* "none", "ok" when a mapping was returned, "error" when an exception was handled
    \* ---- one call of get_input (setup_wizard.py) ----
    giArgs,         \* the arguments: [current_value, required, secret, validator]
    giInputs,       \* the lines typed at the prompts of the call so far
    giPrompts,      \* the number of prompts the call has shown
    giReturn,       \* [state, value]: "running", "returned" with the value, or "raised"
    \* ---- one call of collect_peer_addresses (setup_wizard.py) ----
    currentPeers,   \* existing['variables']['source_peer_addresses'], a value of the configuration
    peerIps,        \* the working list peer_ips
    ppc,            \* position of collect_peer_addresses
    peerEntries,    \* the number of prompts of the collection loop so far
    peerResult,     \* the returned string
    phist,          \* history: the addresses kept, the entries appended, in order, the last line typed, whether every line typed was empty
    \* ---- variable validation (validate_variables.py) ----
    scriptFiles,    \* the *.sh files of the directory: sequence of [readable, text]
    valDoc,         \* what yaml.safe_load returns for config.yaml
    vpc,            \* position of main
    vfile,          \* index in scriptFiles of the next file to read
    scriptVars,     \* the set script_variables
    configVars,     \* config_variables, in key order: sequence of <<key, value>>
    vtodo,          \* what is left of sorted(script_variables)
    present,        \* present_variables
    missing,        \* missing_variables
    vexit,          \* the exit status, -1 while running
    \* ---- variable renaming (standardize_variables.py) ----
    renFiles,       \* the files of files_to_update, in order: sequence of [exists, data]
    renDryRun,      \* the local dry_run of main
    rpc,            \* position of main and of update_file_variables
    rfile,          \* index in renFiles of the file being processed
    renContent,     \* the local content of update_file_variables
    rhist,          \* history: the files and the answer at the start, the files whose read failed
    \* ---- YAML diagnostic (yaml-diagnostic.py) ----
    diagFile,       \* the file config_file: [exists, data], data a sequence of characters
    dpc,            \* position of main and of diagnose_yaml_file
    diagContent,    \* the local file_content
    diagExit,       \* the exit status, -1 while running
    \* ---- one call of validate_uuid (setup_wizard.py) ----
    uuidValue,      \* the argument value, a sequence of characters
    uuidResult      \* "none", "returned", or "raised" for ValueError

wizVars == <<diskConfig, diskBackups, diskTemplate, clock, existing, config, wpc,
             wfield, wresult, whist>>
fixVars == <<fixFile, fixBackup, fpc, fixText, fixesApplied, fixResult, fixRuns, fhist>>
subVars == <<template, allVars, mode, data, spc, skey, subResult>>
loadVars == <<configDoc, loader, lpc, merged, loadResult>>
coreVars == <<wizVars, fixVars, subVars>>
inputVars == <<giArgs, giInputs, giPrompts, giReturn>>
peerVars == <<currentPeers, peerIps, ppc, peerEntries, peerResult, phist>>
valVars == <<scriptFiles, valDoc, vpc, vfile, scriptVars, configVars, vtodo, present, missing, vexit>>
renVars == <<renFiles, renDryRun, rpc, rfile, renContent, rhist>>
diagVars == <<diagFile, dpc, diagContent, diagExit>>
uuidVars == <<uuidValue, uuidResult>>
extVars == <<loadVars, inputVars, peerVars, valVars, renVars, diagVars, uuidVars>>
vars == <<coreVars, extVars>>

----------------------------------------------------------------------------
(* Generic helpers on sequences *)

\* a[i..] (Python slice a[i-1:])
Drop(s, n) == SubSeq(s, n + 1, Len(s))

\* s.startswith(p)
StartsWith(s, p) == Len(p) <= Len(s) /\ SubSeq(s, 1, Len(p)) = p

\* p is a prefix of s (possibly all of s)
IsPrefix(p, s) == StartsWith(s, p)

\* the files of the model: a missing file, and a file holding d
NoFile == [exists |-> FALSE, data |-> <<>>]
File(d) == [exists |-> TRUE, data |-> d]

----------------------------------------------------------------------------
(* ======================  SETUP WIZARD  ================================ *)

\* Number of distinct clock seconds the model distinguishes.
MaxClock == 2

Timestamps == 1..MaxClock

\* The get_input calls of the configure_* sections the model follows, in call
\* order: the name of the field, whether it is required, and its validate_func.
Prompts ==
    << [name |-> "azure_tenant_id",       required |-> TRUE, validator |-> "uuid",          default |-> ""],
       [name |-> "target_resource_group", required |-> TRUE, validator |-> "none",          default |-> ""],
       [name |-> "target_service_level",  required |-> TRUE, validator |-> "service_level", default |-> ""] >>

\* A well-formed UUID and a string that is none.
GoodUuid == "11111111-2222-3333-4444-555555555555"
BadUuid == "not-a-uuid"

\* validate_uuid / validate_service_level on the inputs of the model: TRUE when
\* the validator returns, FALSE when it raises ValueError.
Validate(validator, value) ==
    CASE validator = "uuid"          -> value = GoodUuid
      [] validator = "service_level" -> value \in {"Standard", "Premium", "Ultra"}
      [] OTHER                       -> TRUE

\* What the user may type at a get_input prompt.
Inputs == {"", "skip", "SKIP", GoodUuid, BadUuid, "Premium"}

\* str.lower() on the inputs of the model
Lower(s) == IF s = "SKIP" THEN "skip" ELSE IF s = "N" THEN "n" ELSE s

\* get_input: the value returned for one line of input, or "REPROMPT" when
\* the loop continues with another prompt.
GetInput(value, current_value, required, validator) ==
    IF value = "" /\ current_value # "" THEN current_value
    ELSE IF value = "" /\ ~required THEN ""
    ELSE IF Lower(value) = "skip" THEN (IF current_value # "" THEN current_value ELSE "")
    ELSE IF ~Validate(validator, value) THEN "REPROMPT"
    ELSE IF required /\ value = "" THEN "REPROMPT"
    ELSE value

----------------------------------------------------------------------------
(* The configuration file, line by line.  A line is                        *)
(*   <<"sec", name, "{}">>    a section with an empty mapping              *)
(*   <<"sec", name, ":">>     a section header, its entries follow         *)
(*   <<"kv", key, value>>     an entry of the section above it             *)
(*   <<"junk">>               text that is no YAML                         *)

\* The keys a section may hold, in the order yaml.dump writes them (sorted).
KeyOrder == << "azure_app_secret", "azure_tenant_id", "source_hostname",
               "target_resource_group", "target_service_level" >>

RECURSIVE DumpEntries(_, _)
DumpEntries(m, i) ==
    IF i > Len(KeyOrder) THEN <<>>
    ELSE (IF KeyOrder[i] \in DOMAIN m THEN << <<"kv", KeyOrder[i], m[KeyOrder[i]]>> >> ELSE <<>>)
         \o DumpEntries(m, i + 1)

DumpSection(name, m) ==
    IF DOMAIN m = {} THEN << <<"sec", name, "{}">> >>
    ELSE << <<"sec", name, ":">> >> \o DumpEntries(m, 1)

\* yaml.dump(self.config, default_flow_style=False, indent=2): keys sorted
Serialize(c) == DumpSection("secrets", c.secrets) \o DumpSection("variables", c.variables)

EmptyMap == [k \in {} |-> ""]

\* The entries that follow the header of section name in the lines d.
RECURSIVE EntriesFrom(_, _)
EntriesFrom(d, i) ==
    IF i > Len(d) \/ d[i][1] # "kv" THEN EmptyMap
    ELSE (d[i][2] :> d[i][3]) @@ EntriesFrom(d, i + 1)

HeaderAt(d, name) == {i \in 1..Len(d) : d[i][1] = "sec" /\ d[i][2] = name}

\* The value of top-level key name: "missing", "none" (a header without
\* entries), or "map".
SectionKind(d, name) ==
    IF HeaderAt(d, name) = {} THEN "missing"
    ELSE LET i == CHOOSE j \in HeaderAt(d, name) : TRUE
         IN IF d[i][3] = "{}" THEN "map"
            ELSE IF i < Len(d) /\ d[i + 1][1] = "kv" THEN "map"
            ELSE "none"

SectionMap(d, name) ==
    IF SectionKind(d, name) # "map" THEN EmptyMap
    ELSE LET i == CHOOSE j \in HeaderAt(d, name) : TRUE
         IN EntriesFrom(d, i + 1)

\* yaml.safe_load of the file: raises on junk, None for an empty file, else
\* the mapping.
ParseConfig(d) ==
    IF \E i \in 1..Len(d) : d[i][1] = "junk" THEN [kind |-> "error"]
    ELSE IF d = <<>> THEN [kind |-> "none"]
    ELSE [kind |-> "dict",
          varsKind |-> SectionKind(d, "variables"),
          variables |-> SectionMap(d, "variables"),
          secretsKind |-> SectionKind(d, "secrets"),
          secrets |-> SectionMap(d, "secrets")]

BlankConfig == [kind |-> "dict", varsKind |-> "map", variables |-> EmptyMap,
                secretsKind |-> "map", secrets |-> EmptyMap]

\* existing.get('variables', {}).get(name, default): "ERROR" when it raises
\* AttributeError (existing is None, or the section's value is None)
ExistingGet(ex, name, default) ==
    IF ex.kind # "dict" THEN "ERROR"
    ELSE IF ex.varsKind = "none" THEN "ERROR"
    ELSE IF name \in DOMAIN ex.variables THEN ex.variables[name]
    ELSE default

----------------------------------------------------------------------------
(* Initial state of the wizard: the files on disk before the run *)

OldConfigA == [variables |-> ("azure_tenant_id" :> GoodUuid) @@ ("target_resource_group" :> "rg-old")
                             @@ ("target_service_level" :> "Standard") @@ ("source_hostname" :> "host1"),
               secrets   |-> ("azure_app_secret" :> "s3cret")]
OldConfigB == [variables |-> ("azure_tenant_id" :> BadUuid), secrets |-> EmptyMap]

\* Contents the configuration file may have when the wizard starts: written
\* by an earlier run, edited by hand, empty, or no YAML at all.
InitConfigFiles ==
    { NoFile, File(<<>>), File(<< <<"junk">> >>), File(Serialize(OldConfigA)),
      File(Serialize(OldConfigB)) }

InitTemplateFiles == { NoFile, File(Serialize(OldConfigB)), File(<< <<"junk">> >>) }

NoBackups == [t \in Timestamps |-> NoFile]

\* config_backups is empty, or holds a backup taken in the current second
InitBackupDirs == { NoBackups, [NoBackups EXCEPT ![1] = File(Serialize(OldConfigB))] }

WizIdle ==
    /\ diskConfig = NoFile /\ diskBackups = NoBackups /\ diskTemplate = NoFile
    /\ clock = 1 /\ existing = BlankConfig
    /\ config = [variables |-> EmptyMap, secrets |-> EmptyMap]
    /\ wpc = "idle" /\ wfield = 1 /\ wresult = "none"
    /\ whist = [config0 |-> NoFile, backups0 |-> NoBackups, saveStarted |-> FALSE,
                preSave |-> NoFile, backupName |-> 1, backupDone |-> FALSE,
                writeFailed |-> FALSE, cancelled |-> FALSE]

\* ANFSetupWizard.__init__ followed by the start of run_wizard
WizInit ==
    /\ diskConfig \in InitConfigFiles
    /\ diskBackups \in InitBackupDirs
    /\ diskTemplate \in InitTemplateFiles
    /\ clock = 1
    /\ existing = BlankConfig
    /\ config = [variables |-> EmptyMap, secrets |-> EmptyMap]
    /\ wpc = "load" /\ wfield = 1 /\ wresult = "none"
    /\ whist = [config0 |-> diskConfig, backups0 |-> diskBackups, saveStarted |-> FALSE,
                preSave |-> NoFile, backupName |-> 1, backupDone |-> FALSE,
                writeFailed |-> FALSE, cancelled |-> FALSE]

\* the wizard is the only tool running
WizOnly == UNCHANGED <<fixVars, subVars, extVars>>

diskUnchanged == UNCHANGED <<diskConfig, diskBackups, diskTemplate, clock>>

\* run_wizard returns r (or an exception escapes it: r = "raised")
WizFinish(r) == wpc' = "done" /\ wresult' = r

----------------------------------------------------------------------------
(* load_existing_config *)

\* the configuration file exists: yaml.safe_load(f), outside any try
WizLoadExisting ==
    /\ wpc = "load" /\ diskConfig.exists
    /\ LET p == ParseConfig(diskConfig.data)
       IN IF p.kind = "error"
          THEN WizFinish("raised") /\ UNCHANGED <<existing, wfield>>
          ELSE existing' = p /\ wpc' = "prompt" /\ wfield' = 1 /\ UNCHANGED wresult
    /\ diskUnchanged /\ UNCHANGED <<config, whist>>
    /\ WizOnly

\* no configuration file, a template file: the answer to "Use template as
\* starting point? [y/n]"
WizLoadTemplate(choice) ==
    /\ wpc = "load" /\ ~diskConfig.exists /\ diskTemplate.exists
    /\ IF choice \in {"y", "yes"}
       THEN LET p == ParseConfig(diskTemplate.data)
            IN /\ existing' = IF p.kind = "error" THEN BlankConfig ELSE p
               /\ wpc' = "prompt" /\ wfield' = 1
       ELSE IF choice \in {"n", "no"}
       THEN existing' = BlankConfig /\ wpc' = "prompt" /\ wfield' = 1
       ELSE UNCHANGED <<existing, wpc, wfield>>
    /\ diskUnchanged /\ UNCHANGED <<config, wresult, whist>>
    /\ WizOnly

\* KeyboardInterrupt at the template prompt: raised outside run_wizard's try
WizLoadInterrupt ==
    /\ wpc = "load" /\ ~diskConfig.exists /\ diskTemplate.exists
    /\ WizFinish("raised")
    /\ whist' = [whist EXCEPT !.cancelled = TRUE]
    /\ diskUnchanged /\ UNCHANGED <<existing, config, wfield>>
    /\ WizOnly

\* neither file exists
WizLoadBlank ==
    /\ wpc = "load" /\ ~diskConfig.exists /\ ~diskTemplate.exists
    /\ existing' = BlankConfig /\ wpc' = "prompt" /\ wfield' = 1
    /\ diskUnchanged /\ UNCHANGED <<config, wresult, whist>>
    /\ WizOnly

----------------------------------------------------------------------------
(* the configure_* sections: one get_input call after the other *)

CurrentValue == ExistingGet(existing, Prompts[wfield].name, Prompts[wfield].default)

\* existing.get(...) raises: caught by run_wizard's "except Exception"
WizSectionError ==
    /\ wpc = "prompt" /\ CurrentValue = "ERROR"
    /\ WizFinish("false")
    /\ diskUnchanged /\ UNCHANGED <<existing, config, wfield, whist>>
    /\ WizOnly

\* one line of input at the prompt of field wfield
WizPrompt(inp) ==
    /\ wpc = "prompt" /\ CurrentValue # "ERROR"
    /\ LET p == Prompts[wfield]
           r == GetInput(inp, CurrentValue, p.required, p.validator)
       IN IF r = "REPROMPT"
          THEN UNCHANGED <<config, wfield, wpc>>
          ELSE /\ config' = [config EXCEPT !.variables = (p.name :> r) @@ @]
               /\ IF wfield < Len(Prompts)
                  THEN wfield' = wfield + 1 /\ UNCHANGED wpc
                  ELSE wpc' = "confirm" /\ UNCHANGED wfield
    /\ diskUnchanged /\ UNCHANGED <<existing, wresult, whist>>
    /\ WizOnly

\* an interrupt handler that saves what was collected so far
WizInterrupt_SavesProgress ==
    /\ wpc \in {"prompt", "confirm"}
    /\ wpc' = "save" /\ UNCHANGED wresult
    /\ whist' = [whist EXCEPT !.cancelled = TRUE]
    /\ diskUnchanged /\ UNCHANGED <<existing, config, wfield>>
    /\ WizOnly

\* KeyboardInterrupt at a prompt of a section or at the save confirmation
WizInterrupt ==
    /\ wpc \in {"prompt", "confirm"}
    /\ WizFinish("false")
    /\ whist' = [whist EXCEPT !.cancelled = TRUE]
    /\ diskUnchanged /\ UNCHANGED <<existing, config, wfield>>
    /\ WizOnly

\* the answer to "Save this configuration? (Y/n)"
WizConfirm(ans) ==
    /\ wpc = "confirm"
    /\ IF Lower(ans) \in {"n", "no"}
       THEN WizFinish("false")
       ELSE wpc' = "save" /\ UNCHANGED wresult
    /\ diskUnchanged /\ UNCHANGED <<existing, config, wfield, whist>>
    /\ WizOnly

----------------------------------------------------------------------------
(* save_configuration *)

\* save_configuration without its backup branch
SaveBegin_NoBackup ==
    /\ wpc = "save"
    /\ whist' = [whist EXCEPT !.saveStarted = TRUE, !.preSave = diskConfig]
    /\ wpc' = "open"
    /\ diskUnchanged /\ UNCHANGED <<existing, config, wfield, wresult>>
    /\ WizOnly

\* "if self.config_file.exists()": the backup branch is taken or skipped
SaveBegin ==
    /\ wpc = "save"
    /\ whist' = [whist EXCEPT !.saveStarted = TRUE, !.preSave = diskConfig]
    /\ wpc' = IF diskConfig.exists THEN "backup" ELSE "open"
    /\ diskUnchanged /\ UNCHANGED <<existing, config, wfield, wresult>>
    /\ WizOnly

\* mkdir, the timestamped name, and shutil.copy2 opening the backup file for
\* writing (it is created, or truncated when a file of that name exists)
SaveBackupStart(ts) ==
    /\ wpc = "backup" /\ ts >= clock
    /\ clock' = ts
    /\ diskBackups' = [diskBackups EXCEPT ![ts] = File(<<>>)]
    /\ whist' = [whist EXCEPT !.backupName = ts, !.backupDone = (diskConfig.data = <<>>)]
    /\ wpc' = IF diskConfig.data = <<>> THEN "open" ELSE "copy"
    /\ UNCHANGED <<diskConfig, diskTemplate, existing, config, wfield, wresult>>
    /\ WizOnly

\* shutil.copy2 copies the next piece of the file
SaveCopyChunk ==
    /\ wpc = "copy"
    /\ LET bn == whist.backupName
           n  == Len(diskBackups[bn].data) + 1
           done == n = Len(diskConfig.data)
       IN /\ diskBackups' = [diskBackups EXCEPT ![bn].data = Append(@, diskConfig.data[n])]
          /\ wpc' = IF done THEN "open" ELSE "copy"
          /\ whist' = [whist EXCEPT !.backupDone = done]
    /\ UNCHANGED <<diskConfig, diskTemplate, clock, existing, config, wfield, wresult>>
    /\ WizOnly

\* mkdir or copy2 raises (or the user interrupts): run_wizard returns False
SaveCopyFail ==
    /\ wpc \in {"backup", "copy"}
    /\ WizFinish("false")
    /\ diskUnchanged /\ UNCHANGED <<existing, config, wfield, whist>>
    /\ WizOnly

\* open(self.config_file, 'w'): the file is created or truncated
SaveOpen ==
    /\ wpc = "open"
    /\ diskConfig' = File(<<>>)
    /\ wpc' = "write"
    /\ UNCHANGED <<diskBackups, diskTemplate, clock, existing, config, wfield, wresult, whist>>
    /\ WizOnly

\* open raises (permissions, a directory in the way): nothing is written
SaveOpenFail ==
    /\ wpc = "open"
    /\ WizFinish("false")
    /\ diskUnchanged /\ UNCHANGED <<existing, config, wfield, whist>>
    /\ WizOnly

\* yaml.dump writes the next line; after the last one save_configuration
\* returns and run_wizard returns True
SaveWriteChunk ==
    /\ wpc = "write"
    /\ LET out == Serialize(config)
           n == Len(diskConfig.data) + 1
       IN /\ diskConfig' = [diskConfig EXCEPT !.data = Append(@, out[n])]
          /\ IF n = Len(out) THEN WizFinish("true") ELSE UNCHANGED <<wpc, wresult>>
    /\ UNCHANGED <<diskBackups, diskTemplate, clock, existing, config, wfield, whist>>
    /\ WizOnly

\* the write raises (disk full, I/O error) or is interrupted: the with block
\* closes the file as it is, and run_wizard's except clauses return False
SaveWriteFail ==
    /\ wpc = "write"
    /\ WizFinish("false")
    /\ whist' = [whist EXCEPT !.writeFailed = TRUE]
    /\ diskUnchanged /\ UNCHANGED <<existing, config, wfield>>
    /\ WizOnly

TemplateChoices == {"y", "n", "maybe"}
ConfirmAnswers == {"", "y", "n", "N", "no"}

WizNext ==
    \/ WizLoadExisting
    \/ \E c \in TemplateChoices : WizLoadTemplate(c)
    \/ WizLoadInterrupt
    \/ WizLoadBlank
    \/ WizSectionError
    \/ \E inp \in Inputs : WizPrompt(inp)
    \/ WizInterrupt
    \/ \E a \in ConfirmAnswers : WizConfirm(a)
    \/ SaveBegin
    \/ \E ts \in Timestamps : SaveBackupStart(ts)
    \/ SaveCopyChunk
    \/ SaveCopyFail
    \/ SaveOpen
    \/ SaveOpenFail
    \/ SaveWriteChunk
    \/ SaveWriteFail

----------------------------------------------------------------------------
(* ======================  YAML AUTO-REPAIR  ============================ *)
(* A file is a sequence of units: the characters that the tool or the YAML *)
(* scanner looks at, each on its own, and words (runs of other characters) *)
(* as single units.  "E9byte" is the Latin-1 byte 0xE9, which is no valid  *)
(* UTF-8; every other unit is the UTF-8 encoding of the character or word  *)
(* of the same name.                                                       *)

BOM == "BOM"        \* U+FEFF
CR == "\r"
LF == "\n"
TAB == "\t"
SP == " "
COLON == ":"
HASH == "#"
QUOTE == "\""

\* index of the first x in s, 0 when there is none (str.find + 1)
RECURSIVE FindFrom(_, _, _)
FindFrom(s, x, i) ==
    IF i > Len(s) THEN 0 ELSE IF s[i] = x THEN i ELSE FindFrom(s, x, i + 1)

Find(s, x) == FindFrom(s, x, 1)

\* x in s
Contains(s, x) == Find(s, x) # 0

\* s.split(sep) for a one-character separator
RECURSIVE Split(_, _)
Split(s, sep) ==
    LET i == Find(s, sep)
    IN IF i = 0 THEN <<s>> ELSE <<SubSeq(s, 1, i - 1)>> \o Split(Drop(s, i), sep)

\* sep.join(parts)
RECURSIVE Join(_, _)
Join(parts, sep) ==
    IF Len(parts) = 0 THEN <<>>
    ELSE IF Len(parts) = 1 THEN parts[1]
    ELSE parts[1] \o <<sep>> \o Join(Tail(parts), sep)

\* s.lstrip(c), as the number of leading units in the set cs
RECURSIVE Leading(_, _)
Leading(s, cs) ==
    IF s # <<>> /\ s[1] \in cs THEN 1 + Leading(Tail(s), cs) ELSE 0

\* the characters str.strip() removes
Whitespace == {SP, TAB, CR, LF}

\* s.strip()
RECURSIVE RStrip(_, _)
RStrip(s, cs) ==
    IF s # <<>> /\ s[Len(s)] \in cs THEN RStrip(SubSeq(s, 1, Len(s) - 1), cs) ELSE s

Strip(s) == RStrip(Drop(s, Leading(s, Whitespace)), Whitespace)

\* n copies of the units in u
RECURSIVE Repeat(_, _)
Repeat(u, n) == IF n = 0 THEN <<>> ELSE u \o Repeat(u, n - 1)

----------------------------------------------------------------------------
(* Reading the file: open(config_file, 'r', encoding=encoding).read() *)

\* file_content.replace('\r\n', '\n')
RECURSIVE ReplaceCRLF(_)
ReplaceCRLF(s) ==
    IF s = <<>> THEN <<>>
    ELSE IF Len(s) >= 2 /\ s[1] = CR /\ s[2] = LF THEN <<LF>> \o ReplaceCRLF(Drop(s, 2))
    ELSE <<s[1]>> \o ReplaceCRLF(Tail(s))

\* text mode with newline=None: '\r\n' and a lone '\r' are read as '\n'
RECURSIVE UniversalNewlines(_)
UniversalNewlines(s) ==
    IF s = <<>> THEN <<>>
    ELSE IF Len(s) >= 2 /\ s[1] = CR /\ s[2] = LF THEN <<LF>> \o UniversalNewlines(Drop(s, 2))
    ELSE IF s[1] = CR THEN <<LF>> \o UniversalNewlines(Tail(s))
    ELSE <<s[1]>> \o UniversalNewlines(Tail(s))

\* one unit of the file read as Latin-1: the bytes of a multi-byte UTF-8
\* character become several characters (here one word)
Latin1(u) ==
    CASE u = "E9byte" -> "E9char"
      [] u = BOM      -> "BOMlatin1"
      [] u = "E9char" -> "E9latin1"
      [] OTHER        -> u

encodings_to_try == <<"utf-8", "utf-8-sig", "latin-1", "cp1252", "iso-8859-1">>

\* bytes.decode(encoding): ok is FALSE for UnicodeDecodeError
DecodeWith(encoding, d) ==
    IF encoding \in {"utf-8", "utf-8-sig"}
    THEN IF Contains(d, "E9byte") THEN [ok |-> FALSE, text |-> <<>>]
         ELSE [ok |-> TRUE,
               text |-> IF encoding = "utf-8-sig" /\ d # <<>> /\ d[1] = BOM THEN Tail(d) ELSE d]
    ELSE [ok |-> TRUE, text |-> [i \in DOMAIN d |-> Latin1(d[i])]]

\* the loop over encodings_to_try: the first encoding that decodes the file
RECURSIVE ReadWith(_, _)
ReadWith(d, i) ==
    IF i > Len(encodings_to_try) THEN [ok |-> FALSE, text |-> <<>>]
    ELSE LET r == DecodeWith(encodings_to_try[i], d)
         IN IF r.ok THEN [ok |-> TRUE, text |-> UniversalNewlines(r.text)]
            ELSE ReadWith(d, i + 1)

ReadFile(d) == ReadWith(d, 1)

----------------------------------------------------------------------------
(* The four fixes *)

\* Fix 1: remove one leading BOM
Fix1(s) == IF StartsWith(s, <<BOM>>) THEN Tail(s) ELSE s

\* Fix 2: CRLF to LF
HasCRLF(s) == \E i \in 1..(Len(s) - 1) : s[i] = CR /\ s[i + 1] = LF
Fix2(s) == IF HasCRLF(s) THEN ReplaceCRLF(s) ELSE s

\* Fix 3, one line: leading tabs become two spaces each
TabFixLine(line) ==
    IF StartsWith(line, <<TAB>>)
    THEN LET leading_tabs == Leading(line, {TAB})
         IN Repeat(<<SP, SP>>, leading_tabs) \o Drop(line, leading_tabs)
    ELSE line

Fix3(s) ==
    IF Contains(s, TAB)
    THEN LET lines == Split(s, LF)
         IN Join([i \in DOMAIN lines |-> TabFixLine(lines[i])], LF)
    ELSE s

\* Fix 4, one line: key_part is what precedes the first colon, value_part
\* what follows it
ColonFixLine(line) ==
    IF Contains(line, COLON) /\ ~StartsWith(Strip(line), <<HASH>>)
    THEN LET i == Find(line, COLON)
             key_part == SubSeq(line, 1, i - 1)
             value_part == Drop(line, i)
         IN IF value_part # <<>> /\ value_part[1] # SP /\ value_part[1] # LF
            THEN key_part \o <<COLON, SP>> \o value_part
            ELSE line
    ELSE line

Fix4(s) ==
    LET lines == Split(s, LF)
    IN Join([i \in DOMAIN lines |-> ColonFixLine(lines[i])], LF)

\* the text after the four fixes
FixAll(s) == Fix4(Fix3(Fix2(Fix1(s))))

\* fixes_applied, as a set
FixesOf(s) ==
    LET s1 == Fix1(s)
        s2 == Fix2(s1)
        s3 == Fix3(s2)
    IN (IF StartsWith(s, <<BOM>>) THEN {"Removed BOM (Byte Order Mark)"} ELSE {})
       \cup (IF HasCRLF(s1) THEN {"Converted CRLF to LF line endings"} ELSE {})
       \cup (IF Contains(s2, TAB) THEN {"Replaced tabs with spaces"} ELSE {})
       \cup (IF Fix4(s3) # s3 THEN {"Fixed colon spacing"} ELSE {})

----------------------------------------------------------------------------
(* yaml.safe_load on the block mappings of the configuration format:       *)
(* "key: value" lines with plain or double-quoted keys and scalars,        *)
(* nesting by indentation, comments, multi-line plain scalars.  The result *)
(* is the mapping from key paths to scalars; NULL is YAML's null.          *)

NULL == <<"NULL">>

\* index of the first colon at or after i that ends a key: it is followed by
\* a space or by the end of the line (0: none)
RECURSIVE KeySepFrom(_, _)
KeySepFrom(s, i) ==
    IF i > Len(s) THEN 0
    ELSE IF s[i] = COLON /\ (i = Len(s) \/ s[i + 1] = SP) THEN i
    ELSE KeySepFrom(s, i + 1)

YamlError == [kind |-> "error"]

\* the scalar after "key:"
ParseValue(v) ==
    LET w == RStrip(Drop(v, Leading(v, {SP})), {SP})
    IN IF w = <<>> \/ w[1] = HASH THEN [kind |-> "value", s |-> NULL, quoted |-> FALSE]
       ELSE IF w[1] = QUOTE
       THEN LET j == FindFrom(w, QUOTE, 2)
            IN IF j = Len(w) /\ j > 1
               THEN [kind |-> "value", s |-> SubSeq(w, 2, j - 1), quoted |-> TRUE]
               ELSE YamlError
       ELSE IF Contains(w, TAB) \/ KeySepFrom(w, 1) # 0 THEN YamlError
       ELSE [kind |-> "value", s |-> w, quoted |-> FALSE]

\* one line: blank (or comment), a mapping entry, a scalar, or an error
ParseLine(line) ==
    LET indent == Leading(line, {SP})
        rest == RStrip(Drop(line, indent), {SP})
    IN IF rest = <<>> \/ rest[1] = HASH THEN [kind |-> "blank"]
       ELSE IF rest[1] = TAB THEN YamlError
       ELSE IF rest[1] = QUOTE
       THEN LET j == FindFrom(rest, QUOTE, 2)
                after == Drop(rest, j)
            IN IF j = 0 THEN YamlError
               ELSE IF after = <<>>
               THEN [kind |-> "scalar", indent |-> indent, s |-> SubSeq(rest, 2, j - 1), quoted |-> TRUE]
               ELSE IF KeySepFrom(after, 1) = 1
               THEN LET val == ParseValue(Drop(after, 1))
                    IN IF val.kind = "error" THEN YamlError
                       ELSE [kind |-> "entry", indent |-> indent, key |-> SubSeq(rest, 2, j - 1),
                             s |-> val.s, quoted |-> val.quoted]
               ELSE YamlError
       ELSE LET i == KeySepFrom(rest, 1)
            IN IF i = 0
               THEN IF Contains(rest, TAB) THEN YamlError
                    ELSE [kind |-> "scalar", indent |-> indent, s |-> rest, quoted |-> FALSE]
               ELSE LET key == RStrip(SubSeq(rest, 1, i - 1), {SP})
                        val == ParseValue(Drop(rest, i))
                    IN IF key = <<>> \/ Contains(key, TAB) \/ val.kind = "error" THEN YamlError
                       ELSE [kind |-> "entry", indent |-> indent, key |-> key,
                             s |-> val.s, quoted |-> val.quoted]

\* the open mappings above a line of indentation n
RECURSIVE PopTo(_, _)
PopTo(stack, n) ==
    IF stack # <<>> /\ stack[Len(stack)].indent >= n
    THEN PopTo(SubSeq(stack, 1, Len(stack) - 1), n)
    ELSE stack

PathOf(stack) == [i \in DOMAIN stack |-> stack[i].key]

EmptyDoc == [ok |-> TRUE, kind |-> "empty", root |-> -1, stack |-> <<>>,
             map |-> [q \in {} |-> NULL],
             last |-> [path |-> <<>>, indent |-> -1, cont |-> FALSE]]

BadDoc == [EmptyDoc EXCEPT !.ok = FALSE]

\* a mapping entry of indentation e.indent is added to the document
AddEntry(acc, e) ==
    LET st1 == PopTo(acc.stack, e.indent)
        top == Len(st1)
        fits == IF st1 = <<>> THEN acc.root \in {-1, e.indent}
                ELSE st1[top].child \in {-1, e.indent}
        st2 == IF st1 = <<>> THEN st1 ELSE [st1 EXCEPT ![top].child = e.indent]
        path == PathOf(st1) \o <<e.key>>
    IN IF acc.kind = "scalar" \/ ~fits THEN BadDoc
       ELSE [ok |-> TRUE, kind |-> "map",
             root |-> IF st1 = <<>> THEN e.indent ELSE acc.root,
             stack |-> IF e.s = NULL
                       THEN Append(st2, [indent |-> e.indent, key |-> e.key, child |-> -1])
                       ELSE st2,
             map |-> (path :> e.s) @@ acc.map,
             last |-> [path |-> path, indent |-> e.indent, cont |-> ~e.quoted]]

\* a line without "key:": the document's scalar, or the continuation of the
\* scalar of the entry above it
AddScalar(acc, e) ==
    IF acc.kind = "empty"
    THEN [acc EXCEPT !.kind = "scalar", !.map = (<<>> :> e.s),
                     !.last = [path |-> <<>>, indent |-> -1, cont |-> ~e.quoted]]
    ELSE IF acc.last.cont /\ e.indent > acc.last.indent
                          /\ (~e.quoted \/ acc.map[acc.last.path] = NULL)
    THEN LET old == acc.map[acc.last.path]
         IN [acc EXCEPT !.map = (acc.last.path :> (IF old = NULL THEN e.s ELSE old \o <<SP>> \o e.s)) @@ @,
                        !.stack = PopTo(@, acc.last.indent),
                        !.last.cont = ~e.quoted]
    ELSE BadDoc

RECURSIVE BuildDoc(_, _, _)
BuildDoc(lines, i, acc) ==
    IF ~acc.ok \/ i > Len(lines) THEN acc
    ELSE LET e == ParseLine(lines[i])
         IN BuildDoc(lines, i + 1,
                CASE e.kind = "blank"  -> acc
                  [] e.kind = "entry"  -> AddEntry(acc, e)
                  [] e.kind = "scalar" -> AddScalar(acc, e)
                  [] OTHER             -> BadDoc)

\* yaml.safe_load(text): ok is FALSE when it raises yaml.YAMLError.  The
\* scanner skips a byte order mark at the very start of the text only.
ParseYaml(text) ==
    LET doc == BuildDoc(Split(Fix1(text), LF), 1, EmptyDoc)
    IN [ok |-> doc.ok, kind |-> doc.kind, map |-> doc.map]

\* the document is a configuration: top-level sections "variables" and
\* "secrets", each a mapping from keys to strings
Sections == { <<"variables">>, <<"secrets">> }

IsConfiguration(p) ==
    /\ p.ok /\ p.kind = "map"
    /\ \A path \in DOMAIN p.map :
          /\ path[1] \in Sections
          /\ Len(path) = 1 => \E q \in DOMAIN p.map : Len(q) = 2 /\ q[1] = path[1]
          /\ Len(path) = 2 => p.map[path] # NULL
          /\ Len(path) <= 2

----------------------------------------------------------------------------
(* The files the tool is run on *)

\* Most lines of a file, most byte order marks at its start, most runs of
\* the tool on one file, and the units one write or copy step transfers.
MaxLines == 1
MaxBom == 2
MaxFixRuns == 2
ChunkLen == 12

\* The lines of the files, without indentation and line ending.
LineForms ==
    { <<"k", COLON, SP, "v">>,                                  \* k: v
      <<"j", COLON, "v">>,                                      \* j:v
      <<QUOTE, "k", COLON, "v", QUOTE, COLON, SP, "v">>,         \* "k:v": v
      <<HASH, "k", COLON, "v">>,                                \* #k:v
      <<"k", COLON, "v", COLON, SP, "v">>,                      \* k:v: v
      <<"k", COLON, SP, QUOTE, TAB, QUOTE>>,                    \* k: "<tab>"
      <<"k", COLON, SP, "E9byte">>,                             \* k: <0xE9>
      <<"k", COLON, SP, "v", COLON, SP, "v">> }                 \* k: v: v

RECURSIVE ConcatLines(_, _, _)
ConcatLines(lines, indent, eol) ==
    IF lines = <<>> THEN <<>>
    ELSE indent \o lines[1] \o eol \o ConcatLines(Tail(lines), indent, eol)

\* The layouts of a file: the lines at the root, or under the section header
\* "variables:" and indented with two spaces or with a tab.
Layouts ==
    { [header |-> FALSE, indent |-> <<>>],
      [header |-> TRUE, indent |-> <<SP, SP>>],
      [header |-> TRUE, indent |-> <<TAB>>] }

\* A file: byte order marks, the section header of the layout, and the
\* indented lines, each ended by LF or by CRLF.
Document(boms, layout, eol, lines) ==
    Repeat(<<BOM>>, boms)
    \o (IF layout.header THEN <<"variables", COLON>> \o eol ELSE <<>>)
    \o ConcatLines(lines, layout.indent, eol)

InitFixDocuments ==
    { Document(boms, layout, eol, lines) :
        boms \in 0..MaxBom, layout \in Layouts, eol \in {<<LF>>, <<CR, LF>>},
        lines \in UNION { [1..n -> LineForms] : n \in 1..MaxLines } }

\* a .backup file left by an earlier repair, or none
InitFixBackups == { NoFile, File(<<"k", COLON, SP, "old", LF>>) }

FixIdle ==
    /\ fixFile = NoFile /\ fixBackup = NoFile /\ fpc = "idle" /\ fixText = <<>>
    /\ fixesApplied = {} /\ fixResult = "none" /\ fixRuns = 0
    /\ fhist = <<>>

\* what the history records about the run in progress
RunHistory(file, backup) ==
    [runStart |-> file, backupStart |-> backup, startParse |-> YamlError,
     parseFailed |-> FALSE, writeFailed |-> FALSE, truncated |-> FALSE]

\* main: the file exists, auto_fix_yaml_file(config_file) is called
FixInit ==
    /\ fixFile \in { File(d) : d \in InitFixDocuments }
    /\ fixBackup \in InitFixBackups
    /\ fpc = "read" /\ fixText = <<>> /\ fixesApplied = {} /\ fixResult = "none"
    /\ fixRuns = 1
    /\ fhist = [run |-> RunHistory(fixFile, fixBackup),
                ioFailed |-> FALSE,
                first |-> [valid |-> FALSE, before |-> NoFile, after |-> NoFile, result |-> "none"]]

\* the repair tool is the only tool running
FixOnly == UNCHANGED <<wizVars, subVars, extVars>>

\* auto_fix_yaml_file returns r (or an exception escapes it: r = "raised")
FixFinish(r) == fpc' = "done" /\ fixResult' = r

\* the next ChunkLen units of src that dst does not hold yet
NextChunk(src, dst) == SubSeq(src, Len(dst) + 1, IF Len(dst) + ChunkLen < Len(src) THEN Len(dst) + ChunkLen ELSE Len(src))

----------------------------------------------------------------------------
(* auto_fix_yaml_file *)

\* lines 26-38: the file is read with the first encoding that decodes it
FixRead ==
    /\ fpc = "read"
    /\ LET r == ReadFile(fixFile.data)
       IN IF r.ok
          THEN /\ fixText' = r.text /\ fpc' = "fix" /\ UNCHANGED fixResult
               /\ fhist' = [fhist EXCEPT !.run.startParse = ParseYaml(r.text)]
          ELSE FixFinish("false") /\ UNCHANGED <<fixText, fhist>>
    /\ UNCHANGED <<fixFile, fixBackup, fixesApplied, fixRuns>>
    /\ FixOnly

\* lines 43-99: the four fixes
FixApply ==
    /\ fpc = "fix"
    /\ fixText' = FixAll(fixText)
    /\ fixesApplied' = FixesOf(fixText)
    /\ fpc' = "validate"
    /\ UNCHANGED <<fixFile, fixBackup, fixResult, fixRuns, fhist>>
    /\ FixOnly

\* a validation whose failure does not stop the run
FixValidate_NoCheck ==
    /\ fpc = "validate"
    /\ fpc' = "backup"
    /\ fhist' = [fhist EXCEPT !.run.parseFailed = ~ParseYaml(fixText).ok]
    /\ UNCHANGED <<fixFile, fixBackup, fixText, fixesApplied, fixResult, fixRuns>>
    /\ FixOnly

\* lines 101-107: yaml.safe_load(file_content)
FixValidate ==
    /\ fpc = "validate"
    /\ IF ParseYaml(fixText).ok
       THEN fpc' = "backup" /\ UNCHANGED <<fixResult, fhist>>
       ELSE FixFinish("false") /\ fhist' = [fhist EXCEPT !.run.parseFailed = TRUE]
    /\ UNCHANGED <<fixFile, fixBackup, fixText, fixesApplied, fixRuns>>
    /\ FixOnly

\* lines 110-112: shutil.copy2 opens the .backup file for writing
FixBackupStart ==
    /\ fpc = "backup"
    /\ IF fixFile.exists
       THEN /\ fixBackup' = File(<<>>)
            /\ fpc' = IF fixFile.data = <<>> THEN "open" ELSE "copy"
       ELSE fpc' = "open" /\ UNCHANGED fixBackup
    /\ UNCHANGED <<fixFile, fixText, fixesApplied, fixResult, fixRuns, fhist>>
    /\ FixOnly

\* shutil.copy2 copies the next piece
FixCopyChunk ==
    /\ fpc = "copy"
    /\ fixBackup' = [fixBackup EXCEPT !.data = @ \o NextChunk(fixFile.data, @)]
    /\ fpc' = IF fixBackup'.data = fixFile.data THEN "open" ELSE "copy"
    /\ UNCHANGED <<fixFile, fixText, fixesApplied, fixResult, fixRuns, fhist>>
    /\ FixOnly

\* shutil.copy2 raises: outside the try, the exception escapes
FixCopyFail ==
    /\ fpc \in {"backup", "copy"}
    /\ FixFinish("raised")
    /\ fhist' = [fhist EXCEPT !.ioFailed = TRUE]
    /\ UNCHANGED <<fixFile, fixBackup, fixText, fixesApplied, fixRuns>>
    /\ FixOnly

\* line 117: open(config_file, 'w', encoding='utf-8', newline='\n')
FixOpen ==
    /\ fpc = "open"
    /\ fixFile' = File(<<>>)
    /\ fhist' = [fhist EXCEPT !.run.truncated = TRUE]
    /\ IF fixText = <<>> THEN FixFinish("true") ELSE fpc' = "write" /\ UNCHANGED fixResult
    /\ UNCHANGED <<fixBackup, fixText, fixesApplied, fixRuns>>
    /\ FixOnly

\* open raises inside the try
FixOpenFail ==
    /\ fpc = "open"
    /\ fpc' = "restore"
    /\ fhist' = [fhist EXCEPT !.run.writeFailed = TRUE, !.ioFailed = TRUE]
    /\ UNCHANGED <<fixFile, fixBackup, fixText, fixesApplied, fixResult, fixRuns>>
    /\ FixOnly

\* line 118: f.write(file_content), piece by piece; lines 119-128 after the
\* last piece
FixWriteChunk ==
    /\ fpc = "write"
    /\ fixFile' = [fixFile EXCEPT !.data = @ \o NextChunk(fixText, @)]
    /\ IF fixFile'.data = fixText THEN FixFinish("true") ELSE UNCHANGED <<fpc, fixResult>>
    /\ UNCHANGED <<fixBackup, fixText, fixesApplied, fixRuns, fhist>>
    /\ FixOnly

\* lines 130-131: the write raises an Exception
FixWriteFail ==
    /\ fpc = "write"
    /\ fpc' = "restore"
    /\ fhist' = [fhist EXCEPT !.run.writeFailed = TRUE, !.ioFailed = TRUE]
    /\ UNCHANGED <<fixFile, fixBackup, fixText, fixesApplied, fixResult, fixRuns>>
    /\ FixOnly

\* KeyboardInterrupt during the write: no Exception, it escapes the handler
FixWriteInterrupt ==
    /\ fpc = "write"
    /\ FixFinish("raised")
    /\ fhist' = [fhist EXCEPT !.ioFailed = TRUE]
    /\ UNCHANGED <<fixFile, fixBackup, fixText, fixesApplied, fixRuns>>
    /\ FixOnly

\* an except clause that returns False without restoring
FixRestoreStart_NoRestore ==
    /\ fpc = "restore"
    /\ FixFinish("false")
    /\ UNCHANGED <<fixFile, fixBackup, fixText, fixesApplied, fixRuns, fhist>>
    /\ FixOnly

\* lines 133-136: the backup exists, shutil.copy2(backup_file, config_file)
\* opens the file for writing; without a backup the function returns False
FixRestoreStart ==
    /\ fpc = "restore"
    /\ IF fixBackup.exists
       THEN /\ fixFile' = File(<<>>)
            /\ IF fixBackup.data = <<>> THEN FixFinish("false")
               ELSE fpc' = "restoring" /\ UNCHANGED fixResult
       ELSE FixFinish("false") /\ UNCHANGED fixFile
    /\ UNCHANGED <<fixBackup, fixText, fixesApplied, fixRuns, fhist>>
    /\ FixOnly

\* the restoring copy copies the next piece; line 136 after the last piece
FixRestoreChunk ==
    /\ fpc = "restoring"
    /\ fixFile' = [fixFile EXCEPT !.data = @ \o NextChunk(fixBackup.data, @)]
    /\ IF fixFile'.data = fixBackup.data THEN FixFinish("false") ELSE UNCHANGED <<fpc, fixResult>>
    /\ UNCHANGED <<fixBackup, fixText, fixesApplied, fixRuns, fhist>>
    /\ FixOnly

\* the restoring copy raises: the exception escapes the except clause
FixRestoreFail ==
    /\ fpc \in {"restore", "restoring"}
    /\ FixFinish("raised")
    /\ UNCHANGED <<fixFile, fixBackup, fixText, fixesApplied, fixRuns, fhist>>
    /\ FixOnly

\* the tool is run again on the same file
FixRunAgain ==
    /\ fpc = "done" /\ fixRuns < MaxFixRuns
    /\ fixRuns' = fixRuns + 1
    /\ fpc' = "read" /\ fixText' = <<>> /\ fixesApplied' = {} /\ fixResult' = "none"
    /\ fhist' = [fhist EXCEPT
                    !.run = RunHistory(fixFile, fixBackup),
                    !.first = IF fixRuns = 1
                              THEN [valid |-> fhist.run.startParse.ok, before |-> fhist.run.runStart,
                                    after |-> fixFile, result |-> fixResult]
                              ELSE @]
    /\ UNCHANGED <<fixFile, fixBackup>>
    /\ FixOnly

FixNext ==
    \/ FixRead
    \/ FixApply
    \/ FixValidate
    \/ FixBackupStart
    \/ FixCopyChunk
    \/ FixCopyFail
    \/ FixOpen
    \/ FixOpenFail
    \/ FixWriteChunk
    \/ FixWriteFail
    \/ FixWriteInterrupt
    \/ FixRestoreStart
    \/ FixRestoreChunk
    \/ FixRestoreFail
    \/ FixRunAgain

----------------------------------------------------------------------------
(* ======================  TEMPLATE SUBSTITUTION  ======================= *)

\* Text is a sequence of units: one character each, except that a variable
\* name, an address, a word or a number is one unit.
LBRACE == "{"
RBRACE == "}"
LBRACKET == "["
RBRACKET == "]"
COMMA == ","
APOSTROPHE == "'"
PEERS == "source_peer_addresses"
IP1 == "10.0.0.1"
IP2 == "10.0.0.2"

\* "{{" + key + "}}"
Placeholder(key) == <<LBRACE, LBRACE, key, RBRACE, RBRACE>>

\* '["{{' + key + '}}"]'
Wrapped(key) == <<LBRACKET, QUOTE>> \o Placeholder(key) \o <<QUOTE, RBRACKET>>

\* old in s
ContainsSeq(s, old) == \E i \in 1..(Len(s) - Len(old) + 1) : SubSeq(s, i, i + Len(old) - 1) = old

\* s.replace(old, new): every occurrence, left to right, without overlap
RECURSIVE Replace(_, _, _)
Replace(s, old, new) ==
    IF s = <<>> THEN <<>>
    ELSE IF StartsWith(s, old) THEN new \o Replace(Drop(s, Len(old)), old, new)
    ELSE <<s[1]>> \o Replace(Tail(s), old, new)

\* the parts joined by the text sep
RECURSIVE JoinSeq(_, _)
JoinSeq(parts, sep) ==
    IF Len(parts) = 0 THEN <<>>
    ELSE IF Len(parts) = 1 THEN parts[1]
    ELSE parts[1] \o sep \o JoinSeq(Tail(parts), sep)

----------------------------------------------------------------------------
(* json.loads and json.dumps, for strings, numbers and arrays *)

JsonWhitespace == {SP, LF, CR, TAB}
NumberUnits == {"42"}

JString(units) == [kind |-> "str", units |-> units, items |-> <<>>]
JNumber(units) == [kind |-> "num", units |-> units, items |-> <<>>]
JArray(items) == [kind |-> "list", units |-> <<>>, items |-> items]

\* json.JSONDecodeError
JsonError == [ok |-> FALSE, next |-> 0, val |-> JNumber(<<>>)]
JsonParsed(val, next) == [ok |-> TRUE, next |-> next, val |-> val]

\* the first index from i on that holds no whitespace
RECURSIVE SkipWs(_, _)
SkipWs(s, i) == IF i <= Len(s) /\ s[i] \in JsonWhitespace THEN SkipWs(s, i + 1) ELSE i

\* the first index from i on that holds no unit of a number
RECURSIVE SkipNumber(_, _)
SkipNumber(s, i) == IF i <= Len(s) /\ s[i] \in NumberUnits THEN SkipNumber(s, i + 1) ELSE i

\* the JSON value that starts at index i, and the items of an array that
\* continue at index i
RECURSIVE JsonValueAt(_, _), JsonItemsAt(_, _, _)
JsonValueAt(s, i) ==
    LET j == SkipWs(s, i)
    IN IF j > Len(s) THEN JsonError
       ELSE IF s[j] = QUOTE
       THEN LET c == FindFrom(s, QUOTE, j + 1)
            IN IF c = 0 \/ \E n \in (j + 1)..(c - 1) : s[n] \in {LF, CR, TAB}
               THEN JsonError
               ELSE JsonParsed(JString(SubSeq(s, j + 1, c - 1)), c + 1)
       ELSE IF s[j] \in NumberUnits
       THEN LET e == SkipNumber(s, j) IN JsonParsed(JNumber(SubSeq(s, j, e - 1)), e)
       ELSE IF s[j] = LBRACKET
       THEN LET k == SkipWs(s, j + 1)
            IN IF k <= Len(s) /\ s[k] = RBRACKET
               THEN JsonParsed(JArray(<<>>), k + 1)
               ELSE JsonItemsAt(s, j + 1, <<>>)
       ELSE JsonError
JsonItemsAt(s, i, items) ==
    LET v == JsonValueAt(s, i)
    IN IF ~v.ok THEN JsonError
       ELSE LET k == SkipWs(s, v.next)
            IN IF k > Len(s) THEN JsonError
               ELSE IF s[k] = COMMA THEN JsonItemsAt(s, k + 1, Append(items, v.val))
               ELSE IF s[k] = RBRACKET THEN JsonParsed(JArray(Append(items, v.val)), k + 1)
               ELSE JsonError

\* json.loads(s)
JsonLoads(s) ==
    LET v == JsonValueAt(s, 1)
    IN IF v.ok /\ SkipWs(s, v.next) > Len(s) THEN v ELSE JsonError

\* json.dumps(val) and, with pretty, json.dumps(val, indent=2) at nesting
\* depth level
RECURSIVE JsonDumps(_, _, _)
JsonDumps(val, pretty, level) ==
    IF val.kind = "str" THEN <<QUOTE>> \o val.units \o <<QUOTE>>
    ELSE IF val.kind = "num" THEN val.units
    ELSE IF val.items = <<>> THEN <<LBRACKET, RBRACKET>>
    ELSE LET texts == [n \in DOMAIN val.items |->
                         (IF pretty THEN Repeat(<<SP, SP>>, level + 1) ELSE <<>>)
                         \o JsonDumps(val.items[n], pretty, level + 1)]
         IN IF pretty
            THEN <<LBRACKET, LF>> \o JoinSeq(texts, <<COMMA, LF>>)
                 \o <<LF>> \o Repeat(<<SP, SP>>, level) \o <<RBRACKET>>
            ELSE <<LBRACKET>> \o JoinSeq(texts, <<COMMA, SP>>) \o <<RBRACKET>>

----------------------------------------------------------------------------
(* The merged variables and the templates *)

\* Most segments of a template.
MaxSegments == 2

\* A value loaded from the configuration: a YAML string, integer or list.
StrValue(units) == [type |-> "str", units |-> units, items |-> <<>>]
IntValue(units) == [type |-> "int", units |-> units, items |-> <<>>]
ListValue(items) == [type |-> "list", units |-> <<>>, items |-> items]

\* str(value); the str of a list is its repr, with single quotes
Str(value) ==
    IF value.type = "list"
    THEN <<LBRACKET>>
         \o JoinSeq([n \in DOMAIN value.items |-> <<APOSTROPHE, value.items[n], APOSTROPHE>>],
                    <<COMMA, SP>>)
         \o <<RBRACKET>>
    ELSE value.units

\* the array text ["10.0.0.1","10.0.0.2"], and the text json.dumps gives
CompactPeers == <<LBRACKET, QUOTE, IP1, QUOTE, COMMA, QUOTE, IP2, QUOTE, RBRACKET>>
SpacedPeers == <<LBRACKET, QUOTE, IP1, QUOTE, COMMA, SP, QUOTE, IP2, QUOTE, RBRACKET>>

\* the values of the key a and of the key source_peer_addresses
ValuesOfA == { StrValue(<<"x">>), IntValue(<<"42">>), StrValue(Placeholder(PEERS)) }
ValuesOfPeers ==
    { StrValue(<<IP1>>), StrValue(CompactPeers), StrValue(SpacedPeers),
      StrValue(<<LBRACKET, QUOTE, IP1, QUOTE, RBRACKET>>), ListValue(<<IP1, IP2>>) }

\* all_vars.items(): the keys a and source_peer_addresses, each present or
\* not, in either order; the key u is in no configuration
InitAllVars ==
    {<<>>}
    \cup { <<<<"a", v>>>> : v \in ValuesOfA }
    \cup { <<<<PEERS, w>>>> : w \in ValuesOfPeers }
    \cup { <<<<"a", v>>, <<PEERS, w>>>> : v \in ValuesOfA, w \in ValuesOfPeers }
    \cup { <<<<PEERS, w>>, <<"a", v>>>> : v \in ValuesOfA, w \in ValuesOfPeers }

\* the segments of the templates: plain text, placeholders bare, quoted and
\* wrapped
SegmentForms ==
    { <<"text">>,
      Placeholder("a"),
      Placeholder("u"),
      <<QUOTE>> \o Placeholder("a") \o <<QUOTE>>,
      Placeholder(PEERS),
      Wrapped(PEERS) }

RECURSIVE Concat(_)
Concat(parts) == IF parts = <<>> THEN <<>> ELSE parts[1] \o Concat(Tail(parts))

InitTemplates ==
    { Concat(segs) : segs \in UNION { [1..n -> SegmentForms] : n \in 0..MaxSegments } }

SubIdle ==
    /\ template = <<>> /\ allVars = <<>> /\ mode = "url" /\ data = <<>>
    /\ spc = "idle" /\ skey = 1 /\ subResult = <<>>

\* main, line 98: _substitute(template, all_vars, mode); line 50
SubInit ==
    /\ template \in InitTemplates
    /\ allVars \in InitAllVars
    /\ mode \in {"url", "body"}
    /\ data = template
    /\ spc = "loop" /\ skey = 1 /\ subResult = <<>>

\* the substitution tool is the only tool running
SubOnly == UNCHANGED <<wizVars, fixVars, extVars>>

Keys(vs) == { vs[n][1] : n \in DOMAIN vs }

\* line 55: the special handling applies
IsPeersStep ==
    /\ allVars[skey][1] = PEERS
    /\ ContainsSeq(data, Placeholder(PEERS))

----------------------------------------------------------------------------
(* _substitute *)

\* a special handling that puts the stored text in place of the placeholder
SubPeers_RawText ==
    /\ spc = "loop" /\ skey <= Len(allVars)
    /\ IsPeersStep
    /\ data' = Replace(data, Placeholder(allVars[skey][1]), Str(allVars[skey][2]))
    /\ skey' = skey + 1
    /\ UNCHANGED <<template, allVars, mode, spc, subResult>>
    /\ SubOnly

\* lines 55-64: the iteration for source_peer_addresses
SubPeers ==
    /\ spc = "loop" /\ skey <= Len(allVars)
    /\ IsPeersStep
    /\ LET key == allVars[skey][1]
           value == allVars[skey][2]
           parsed_addrs == JsonLoads(Str(value))
       IN data' = IF parsed_addrs.ok /\ parsed_addrs.val.kind = "list"
                  THEN Replace(data, Wrapped(key), JsonDumps(parsed_addrs.val, FALSE, 0))
                  ELSE Replace(data, Placeholder(key), Str(value))
    /\ skey' = skey + 1
    /\ UNCHANGED <<template, allVars, mode, spc, subResult>>
    /\ SubOnly

\* line 66: the iteration for any other key
SubReplace ==
    /\ spc = "loop" /\ skey <= Len(allVars)
    /\ ~IsPeersStep
    /\ data' = Replace(data, Placeholder(allVars[skey][1]), Str(allVars[skey][2]))
    /\ skey' = skey + 1
    /\ UNCHANGED <<template, allVars, mode, spc, subResult>>
    /\ SubOnly

\* a body mode that serializes without indentation
SubFormatBody_Compact ==
    /\ spc = "loop" /\ skey > Len(allVars)
    /\ mode = "body"
    /\ LET parsed == JsonLoads(data)
       IN subResult' = IF parsed.ok THEN JsonDumps(parsed.val, FALSE, 0) ELSE data
    /\ spc' = "done"
    /\ UNCHANGED <<template, allVars, mode, data, skey>>
    /\ SubOnly

\* lines 68-74: body mode
SubFormatBody ==
    /\ spc = "loop" /\ skey > Len(allVars)
    /\ mode = "body"
    /\ LET parsed == JsonLoads(data)
       IN subResult' = IF parsed.ok THEN JsonDumps(parsed.val, TRUE, 0) ELSE data
    /\ spc' = "done"
    /\ UNCHANGED <<template, allVars, mode, data, skey>>
    /\ SubOnly

\* a url mode that drops the placeholders left unresolved
SubReturnUrl_DropsUnresolved ==
    /\ spc = "loop" /\ skey > Len(allVars)
    /\ mode # "body"
    /\ subResult' = Replace(data, Placeholder("u"), <<>>)
    /\ spc' = "done"
    /\ UNCHANGED <<template, allVars, mode, data, skey>>
    /\ SubOnly

\* lines 75-77: url mode
SubReturnUrl ==
    /\ spc = "loop" /\ skey > Len(allVars)
    /\ mode # "body"
    /\ subResult' = data
    /\ spc' = "done"
    /\ UNCHANGED <<template, allVars, mode, data, skey>>
    /\ SubOnly

SubNext ==
    \/ SubPeers
    \/ SubReplace
    \/ SubFormatBody
    \/ SubReturnUrl

----------------------------------------------------------------------------
(* ======================  LOADING THE MERGED VARIABLES  ================= *)

\* Most keys of one section of the configuration.
MaxKeys == 2

ConfigKeys == {"k1", "k2", "k3"}
ConfigValues == {"v1", "v2"}

\* the keys of the sequence of pairs d are distinct
DistinctKeys(d) == \A m, n \in DOMAIN d : d[m][1] = d[n][1] => m = n

\* the mappings a section can hold, in the order of the file
SectionMaps ==
    { d \in UNION { [1..n -> ConfigKeys \X ConfigValues] : n \in 0..MaxKeys } : DistinctKeys(d) }

\* a section of the configuration: absent, empty (null), a scalar, or a mapping
MissingSection == [kind |-> "missing", items |-> <<>>]
NullSection == [kind |-> "null", items |-> <<>>]
ScalarSection == [kind |-> "scalar", items |-> <<>>]
MapSection(d) == [kind |-> "map", items |-> d]
InitSections == {MissingSection, NullSection, ScalarSection} \cup { MapSection(d) : d \in SectionMaps }

\* what yaml.safe_load returns: None for an empty file, or a mapping
NullDoc == [kind |-> "null", variables |-> MissingSection, secrets |-> MissingSection]
InitConfigDocs ==
    {NullDoc} \cup { [kind |-> "map", variables |-> v, secrets |-> w] : v \in InitSections, w \in InitSections }

\* d[key] = value
Put(d, key, value) ==
    IF key \in { d[n][1] : n \in DOMAIN d }
    THEN [n \in DOMAIN d |-> IF d[n][1] = key THEN <<key, value>> ELSE d[n]]
    ELSE Append(d, <<key, value>>)

\* d.update(e), and {**d, **e}
RECURSIVE Update(_, _)
Update(d, e) == IF e = <<>> THEN d ELSE Update(Put(d, e[1][1], e[1][2]), Tail(e))

\* config.get(name, {}) or {} of _load_all_vars: an absent, null or empty
\* section counts as the empty mapping
SectionOrEmpty(section) == IF section.kind \in {"missing", "null"} THEN MapSection(<<>>) ELSE section

\* config.get(name, {}) of load_config_variables: only an absent section
\* counts as the empty mapping
SectionOrDefault(section) == IF section.kind = "missing" THEN MapSection(<<>>) ELSE section

LoadIdle ==
    /\ configDoc = NullDoc /\ loader = "none" /\ lpc = "idle" /\ merged = <<>>
    /\ loadResult = "none"

LoadInit ==
    /\ configDoc \in InitConfigDocs
    /\ loader \in {"template", "validator"}
    /\ lpc = "start" /\ merged = <<>> /\ loadResult = "none"

\* the loaders are the only code running
LoadOnly == UNCHANGED <<coreVars, inputVars, peerVars, valVars, renVars, diagVars, uuidVars>>

LoadFinish(r) == lpc' = "done" /\ loadResult' = r

\* _load_all_vars, lines 38-43
LoadAllVarsStart ==
    /\ lpc = "start" /\ loader = "template"
    /\ lpc' = "variables"
    /\ merged' = <<>>
    /\ UNCHANGED <<configDoc, loader, loadResult>>
    /\ LoadOnly

\* a merge that keeps the value a key already has
LoadUpdateSecrets_KeepsFirst ==
    /\ lpc = "secrets"
    /\ LET secrets == SectionOrEmpty(configDoc.secrets)
       IN IF secrets.kind = "map"
          THEN merged' = Update(secrets.items, merged) /\ LoadFinish("ok")
          ELSE LoadFinish("error") /\ UNCHANGED merged
    /\ UNCHANGED <<configDoc, loader>>
    /\ LoadOnly

\* line 44: merged.update(variables); a scalar raises, main reports the error
LoadUpdateVariables ==
    /\ lpc = "variables"
    /\ LET variables == SectionOrEmpty(configDoc.variables)
       IN IF variables.kind = "map"
          THEN merged' = Update(merged, variables.items) /\ lpc' = "secrets" /\ UNCHANGED loadResult
          ELSE LoadFinish("error") /\ UNCHANGED merged
    /\ UNCHANGED <<configDoc, loader>>
    /\ LoadOnly

\* lines 45-46: merged.update(secrets); return merged
LoadUpdateSecrets ==
    /\ lpc = "secrets"
    /\ LET secrets == SectionOrEmpty(configDoc.secrets)
       IN IF secrets.kind = "map"
          THEN merged' = Update(merged, secrets.items) /\ LoadFinish("ok")
          ELSE LoadFinish("error") /\ UNCHANGED merged
    /\ UNCHANGED <<configDoc, loader>>
    /\ LoadOnly

\* load_config_variables, lines 35-43: any exception returns {}
LoadConfigVariables ==
    /\ lpc = "start" /\ loader = "validator"
    /\ LET variables == SectionOrDefault(configDoc.variables)
           secrets == SectionOrDefault(configDoc.secrets)
       IN IF configDoc.kind = "map" /\ variables.kind = "map" /\ secrets.kind = "map"
          THEN merged' = Update(Update(<<>>, variables.items), secrets.items) /\ LoadFinish("ok")
          ELSE merged' = <<>> /\ LoadFinish("error")
    /\ UNCHANGED <<configDoc, loader>>
    /\ LoadOnly

LoadNext ==
    \/ LoadAllVarsStart
    \/ LoadUpdateVariables
    \/ LoadUpdateSecrets
    \/ LoadConfigVariables

----------------------------------------------------------------------------
(* ======================  ONE CALL OF get_input  ======================= *)

\* Most prompts of one call.
MaxPrompts == 4

\* a line of blanks
Blank == "   "

\* what the user may type at a prompt
TypedLines == Inputs \cup {Blank}

\* str.strip() on the lines of the model
StripLine(line) == IF line = Blank THEN "" ELSE line

\* lines 100-103: the value read at a prompt; getpass does not strip
ValueRead(line, secret) == IF secret THEN line ELSE StripLine(line)

InputIdle ==
    /\ giArgs = [current_value |-> "", required |-> TRUE, secret |-> FALSE, validator |-> "none"]
    /\ giInputs = <<>> /\ giPrompts = 0
    /\ giReturn = [state |-> "idle", value |-> ""]

InputInit ==
    /\ giArgs \in [current_value : {"", GoodUuid, BadUuid}, required : BOOLEAN,
                    secret : BOOLEAN, validator : {"none", "uuid", "service_level"}]
    /\ giInputs = <<>> /\ giPrompts = 0
    /\ giReturn = [state |-> "running", value |-> ""]

\* get_input is the only code running
InputOnly == UNCHANGED <<coreVars, loadVars, peerVars, valVars, renVars, diagVars, uuidVars>>

\* an iteration that returns the line whatever the validator says
GiAnswer_ReturnsRejected(line) ==
    /\ giReturn.state = "running" /\ giPrompts < MaxPrompts
    /\ giPrompts' = giPrompts + 1
    /\ giInputs' = Append(giInputs, line)
    /\ LET value == ValueRead(line, giArgs.secret)
           r == GetInput(value, giArgs.current_value, giArgs.required, "none")
       IN giReturn' = IF r = "REPROMPT" THEN giReturn ELSE [state |-> "returned", value |-> r]
    /\ UNCHANGED giArgs
    /\ InputOnly

\* lines 99-129: one iteration of the loop: the prompt, the line typed, and
\* the return or the continue
GiAnswer(line) ==
    /\ giReturn.state = "running" /\ giPrompts < MaxPrompts
    /\ giPrompts' = giPrompts + 1
    /\ giInputs' = Append(giInputs, line)
    /\ LET value == ValueRead(line, giArgs.secret)
           r == GetInput(value, giArgs.current_value, giArgs.required, giArgs.validator)
       IN giReturn' = IF r = "REPROMPT" THEN giReturn ELSE [state |-> "returned", value |-> r]
    /\ UNCHANGED giArgs
    /\ InputOnly

\* lines 101-103: KeyboardInterrupt (or end of input) at the prompt
GiInterrupt ==
    /\ giReturn.state = "running" /\ giPrompts < MaxPrompts
    /\ giPrompts' = giPrompts + 1
    /\ giReturn' = [state |-> "raised", value |-> ""]
    /\ UNCHANGED <<giArgs, giInputs>>
    /\ InputOnly

InputNext ==
    \/ \E line \in TypedLines : GiAnswer(line)
    \/ GiInterrupt

----------------------------------------------------------------------------
(* ======================  PEER ADDRESS COLLECTION  ===================== *)

\* Most prompts of the collection loop in one call.
MaxEntries == 3

\* The addresses of the model, besides IP1 and IP2: the placeholder, a short
\* form that inet_aton accepts, a dotted quad with an octet above 255, and a
\* word.
PlaceholderIp == "192.168.1.100"
ShortIp == "10.1"
BigOctetIp == "999.1.1.1"
NotIp == "abc"

\* socket.inet_aton(value) returns
InetAton(value) == value \in {IP1, IP2, PlaceholderIp, ShortIp}

\* value is four dot-separated decimal octets, each in 0..255
IsIpv4Literal(value) == value \in {IP1, IP2, PlaceholderIp}

\* value matches [0-9]{1,3}\.[0-9]{1,3}\.[0-9]{1,3}\.[0-9]{1,3}
MatchesQuadPattern(value) == value \in {IP1, IP2, PlaceholderIp, BigOctetIp}

\* line 201: an extracted address that is not the placeholder
IsExistingIp(unit) == MatchesQuadPattern(unit) /\ unit # PlaceholderIp

\* lines 200-201: re.findall over the text, without the placeholder
RECURSIVE FindIps(_)
FindIps(text) ==
    IF text = <<>> THEN <<>>
    ELSE (IF IsExistingIp(text[1]) THEN <<text[1]>> ELSE <<>>) \o FindIps(Tail(text))

\* lines 194-201: existing_ips for a string current_peers
ExistingIps(current_peers) ==
    IF current_peers # <<>> /\ Strip(current_peers) # <<>> /\ current_peers # <<PlaceholderIp>>
    THEN FindIps(current_peers)
    ELSE <<>>

\* json.dumps(peer_ips)
DumpsIps(ips) == JsonDumps(JArray([n \in DOMAIN ips |-> JString(<<ips[n]>>)]), FALSE, 0)

\* lines 276-282: the encoding of a list of one or more addresses
EncodeIps(ips) == IF Len(ips) = 1 THEN <<ips[1]>> ELSE DumpsIps(ips)

\* str.lower() on the answers of the model
LowerAnswer(s) == IF s = "Y" THEN "y" ELSE Lower(s)

\* the values source_peer_addresses may have in the existing configuration:
\* none, what the wizard wrote, and what a hand edit left
InitCurrentPeers ==
    { StrValue(<<>>),
      StrValue(<<IP1>>),
      StrValue(<<PlaceholderIp>>),
      StrValue(<<SP>>),
      StrValue(SpacedPeers),
      StrValue(DumpsIps(<<PlaceholderIp, IP1>>)),
      StrValue(<<IP1, COMMA, IP1>>),
      StrValue(<<BigOctetIp>>),
      ListValue(<<IP1, IP2>>) }

\* what the user may type at the prompts of the collection
EntryLines == {"", "skip", IP1, IP2, PlaceholderIp, ShortIp, BigOctetIp, NotIp}
YesNoLines == {"", "y", "n", "N", "no", "skip"}

PeerIdle ==
    /\ currentPeers = StrValue(<<>>) /\ peerIps = <<>> /\ ppc = "idle"
    /\ peerEntries = 0 /\ peerResult = <<>>
    /\ phist = [kept |-> <<>>, appended |-> <<>>, last |-> "", allEmpty |-> TRUE]

PeerInit ==
    /\ currentPeers \in InitCurrentPeers
    /\ peerIps = <<>> /\ ppc = "start" /\ peerEntries = 0 /\ peerResult = <<>>
    /\ phist = [kept |-> <<>>, appended |-> <<>>, last |-> "", allEmpty |-> TRUE]

\* collect_peer_addresses is the only code running
PeerOnly == UNCHANGED <<coreVars, loadVars, inputVars, valVars, renVars, diagVars, uuidVars>>

\* collect_peer_addresses returns text
PeerReturn(text) == ppc' = "done" /\ peerResult' = text

\* lines 193-209: the existing value is parsed; str.strip() of a value that
\* is no string raises
PeerStart ==
    /\ ppc = "start"
    /\ IF currentPeers.type # "str"
       THEN ppc' = "raised"
       ELSE ppc' = IF ExistingIps(currentPeers.units) # <<>> THEN "keep" ELSE "collect"
    /\ UNCHANGED <<currentPeers, peerIps, peerEntries, peerResult, phist>>
    /\ PeerOnly

\* lines 211-221: "Keep existing peer addresses? (Y/n)"
PeerKeep(line) ==
    /\ ppc = "keep"
    /\ LET keep_existing == GetInput(StripLine(line), "Y", FALSE, "none")
       IN IF LowerAnswer(keep_existing) \in {"y", "yes", ""}
          THEN /\ peerIps' = ExistingIps(currentPeers.units)
               /\ phist' = [phist EXCEPT !.kept = ExistingIps(currentPeers.units),
                                         !.allEmpty = @ /\ line = ""]
          ELSE UNCHANGED peerIps /\ phist' = [phist EXCEPT !.allEmpty = @ /\ line = ""]
    /\ ppc' = "collect"
    /\ UNCHANGED <<currentPeers, peerEntries, peerResult>>
    /\ PeerOnly

\* the return of lines 276-285 for a working list that is not empty, the
\* placeholder question of lines 263-269 for an empty one
PeerFinish(ips) ==
    IF ips = <<>> THEN ppc' = "placeholder" /\ UNCHANGED peerResult
    ELSE PeerReturn(EncodeIps(ips))

\* a collection loop that appends an address already in the working list
PeerEntry_AllowsDuplicates(line) ==
    /\ ppc = "collect" /\ peerEntries < MaxEntries
    /\ peerEntries' = peerEntries + 1
    /\ LET ip_address == GetInput(StripLine(line), "", FALSE, "none")
       IN IF ip_address = ""
          THEN PeerFinish(peerIps) /\ UNCHANGED peerIps /\ phist' = [phist EXCEPT !.last = line, !.allEmpty = @ /\ line = ""]
          ELSE IF ~InetAton(ip_address)
          THEN UNCHANGED <<peerIps, ppc, peerResult>> /\ phist' = [phist EXCEPT !.last = line, !.allEmpty = @ /\ line = ""]
          ELSE /\ peerIps' = Append(peerIps, ip_address)
               /\ phist' = [phist EXCEPT !.appended = Append(@, ip_address), !.last = line, !.allEmpty = @ /\ line = ""]
               /\ UNCHANGED <<ppc, peerResult>>
    /\ UNCHANGED currentPeers
    /\ PeerOnly

\* lines 225-260: one iteration of the collection loop; on the empty value
\* the loop ends and lines 263-285 follow
PeerEntry(line) ==
    /\ ppc = "collect" /\ peerEntries < MaxEntries
    /\ peerEntries' = peerEntries + 1
    /\ LET ip_address == GetInput(StripLine(line), "", FALSE, "none")
       IN IF ip_address = ""
          THEN PeerFinish(peerIps) /\ UNCHANGED peerIps /\ phist' = [phist EXCEPT !.last = line, !.allEmpty = @ /\ line = ""]
          ELSE IF ~InetAton(ip_address) \/ \E n \in DOMAIN peerIps : peerIps[n] = ip_address
          THEN UNCHANGED <<peerIps, ppc, peerResult>> /\ phist' = [phist EXCEPT !.last = line, !.allEmpty = @ /\ line = ""]
          ELSE /\ peerIps' = Append(peerIps, ip_address)
               /\ phist' = [phist EXCEPT !.appended = Append(@, ip_address), !.last = line, !.allEmpty = @ /\ line = ""]
               /\ UNCHANGED <<ppc, peerResult>>
    /\ UNCHANGED currentPeers
    /\ PeerOnly

\* lines 265-274: "Add placeholder IP (192.168.1.100)?"
PeerPlaceholder(line) ==
    /\ ppc = "placeholder"
    /\ LET add_placeholder == GetInput(StripLine(line), "Y", FALSE, "none")
       IN IF LowerAnswer(add_placeholder) \in {"y", "yes", ""}
          THEN PeerReturn(<<PlaceholderIp>>)
          ELSE PeerReturn(<<>>)
    /\ phist' = [phist EXCEPT !.allEmpty = @ /\ line = ""]
    /\ UNCHANGED <<currentPeers, peerIps, peerEntries>>
    /\ PeerOnly

\* KeyboardInterrupt at a prompt: lines 256-257 raise it again
PeerInterrupt ==
    /\ \/ ppc \in {"keep", "placeholder"}
       \/ ppc = "collect" /\ peerEntries < MaxEntries
    /\ ppc' = "raised"
    /\ UNCHANGED <<currentPeers, peerIps, peerEntries, peerResult, phist>>
    /\ PeerOnly

PeerNext ==
    \/ PeerStart
    \/ \E line \in YesNoLines : PeerKeep(line)
    \/ \E line \in EntryLines : PeerEntry(line)
    \/ \E line \in YesNoLines : PeerPlaceholder(line)
    \/ PeerInterrupt

----------------------------------------------------------------------------
(* ======================  VARIABLE VALIDATION  ========================= *)

\* Most script files of the directory.
MaxScripts == 2

PLUS == "+"

\* the index of the first "}" of text from index i on, Len(text) + 1 when
\* there is none
RECURSIVE BraceFrom(_, _)
BraceFrom(text, i) ==
    IF i > Len(text) \/ text[i] = RBRACE THEN i ELSE BraceFrom(text, i + 1)

\* line 23: re.findall of {{ ([^}]+) }} from index i on: the inner texts of
\* the matches, left to right, without overlap
RECURSIVE FindReferences(_, _)
FindReferences(text, i) ==
    IF i + 4 > Len(text) THEN <<>>
    ELSE LET e == BraceFrom(text, i + 2)
         IN IF /\ text[i] = LBRACE /\ text[i + 1] = LBRACE
               /\ e > i + 2
               /\ e + 1 <= Len(text) /\ text[e + 1] = RBRACE
            THEN <<SubSeq(text, i + 2, e - 1)>> \o FindReferences(text, e + 2)
            ELSE FindReferences(text, i + 1)

\* line 26: the match is no piece of code that builds a placeholder
IsLiteralReference(match) ==
    \A n \in DOMAIN match : match[n] \notin {APOSTROPHE, QUOTE, PLUS}

\* lines 23-27: the variables one script adds
ReferencesOf(text) ==
    { FindReferences(text, 1)[n] : n \in { m \in DOMAIN FindReferences(text, 1) :
                                            IsLiteralReference(FindReferences(text, 1)[m]) } }

\* the references of the model in the order of sorted()
ReferenceOrder ==
    << <<SP, "target_location", SP>>, <<"target_location">>, <<"undefined_key">>,
       <<LBRACE, "target_location">> >>

\* sorted(script_variables), from index i of ReferenceOrder on
RECURSIVE SortedFrom(_, _)
SortedFrom(set, i) ==
    IF i > Len(ReferenceOrder) THEN <<>>
    ELSE (IF ReferenceOrder[i] \in set THEN <<ReferenceOrder[i]>> ELSE <<>>)
         \o SortedFrom(set, i + 1)

\* the texts of the script files
ScriptTexts ==
    { <<"text">>,
      Placeholder("target_location"),
      Placeholder("target_location") \o <<"text">> \o Placeholder("undefined_key"),
      <<LBRACE>> \o Placeholder("target_location") \o <<RBRACE>>,
      <<LBRACE, LBRACE, SP, "target_location", SP, RBRACE, RBRACE>>,
      <<LBRACE, LBRACE, APOSTROPHE, SP, PLUS, SP, "key", SP, PLUS, SP, APOSTROPHE, RBRACE, RBRACE>> }

\* a script file, and a file whose read raises
InitScripts ==
    { [readable |-> TRUE, text |-> t] : t \in ScriptTexts }
    \cup { [readable |-> FALSE, text |-> Placeholder("undefined_key")] }

\* the contents of config.yaml
InitValDocs ==
    { NullDoc,
      [kind |-> "map", variables |-> MapSection(<<<<"target_location", "v1">>>>), secrets |-> MissingSection],
      [kind |-> "map", variables |-> MapSection(<<<<"target_location", "v1">>>>),
                       secrets |-> MapSection(<<<<"undefined_key", "v2">>>>)],
      [kind |-> "map", variables |-> MapSection(<<<<"target_location", "v1">>>>), secrets |-> NullSection],
      [kind |-> "map", variables |-> MapSection(<<>>), secrets |-> MapSection(<<>>)] }

\* load_config_variables, lines 33-43
LoadedVariables(doc) ==
    LET variables == SectionOrDefault(doc.variables)
        secrets == SectionOrDefault(doc.secrets)
    IN IF doc.kind = "map" /\ variables.kind = "map" /\ secrets.kind = "map"
       THEN Update(Update(<<>>, variables.items), secrets.items)
       ELSE <<>>

ValIdle ==
    /\ scriptFiles = <<>> /\ valDoc = NullDoc /\ vpc = "idle" /\ vfile = 1
    /\ scriptVars = {} /\ configVars = <<>> /\ vtodo = <<>>
    /\ present = <<>> /\ missing = <<>> /\ vexit = -1

ValInit ==
    /\ scriptFiles \in UNION { [1..n -> InitScripts] : n \in 0..MaxScripts }
    /\ valDoc \in InitValDocs
    /\ vpc = "extract" /\ vfile = 1
    /\ scriptVars = {} /\ configVars = <<>> /\ vtodo = <<>>
    /\ present = <<>> /\ missing = <<>> /\ vexit = -1

\* the validator is the only tool running
ValOnly == UNCHANGED <<coreVars, loadVars, inputVars, peerVars, renVars, diagVars, uuidVars>>

\* lines 18-29: one script file is read; a failing read is reported and
\* adds nothing
ValReadScript ==
    /\ vpc = "extract" /\ vfile <= Len(scriptFiles)
    /\ scriptVars' = IF scriptFiles[vfile].readable
                      THEN scriptVars \cup ReferencesOf(scriptFiles[vfile].text)
                      ELSE scriptVars
    /\ vfile' = vfile + 1
    /\ UNCHANGED <<scriptFiles, valDoc, vpc, configVars, vtodo, present, missing, vexit>>
    /\ ValOnly

\* lines 31, 54-63: the variables are returned, the configuration is loaded,
\* the lists are empty
ValLoadConfig ==
    /\ vpc = "extract" /\ vfile > Len(scriptFiles)
    /\ configVars' = LoadedVariables(valDoc)
    /\ vtodo' = SortedFrom(scriptVars, 1)
    /\ present' = <<>> /\ missing' = <<>>
    /\ vpc' = "classify"
    /\ UNCHANGED <<scriptFiles, valDoc, vfile, scriptVars, vexit>>
    /\ ValOnly

\* lines 63-76: one iteration of the loop over sorted(script_variables)
ValClassify ==
    /\ vpc = "classify" /\ vtodo # <<>>
    /\ LET var == Head(vtodo)
       IN IF \E k \in Keys(configVars) : var = <<k>>
          THEN present' = Append(present, var) /\ UNCHANGED missing
          ELSE missing' = Append(missing, var) /\ UNCHANGED present
    /\ vtodo' = Tail(vtodo)
    /\ UNCHANGED <<scriptFiles, valDoc, vpc, vfile, scriptVars, configVars, vexit>>
    /\ ValOnly

\* a summary that always reports success
ValExit_ExitsZero ==
    /\ vpc = "classify" /\ vtodo = <<>>
    /\ vexit' = 0
    /\ vpc' = "done"
    /\ UNCHANGED <<scriptFiles, valDoc, vfile, scriptVars, configVars, vtodo, present, missing>>
    /\ ValOnly

\* lines 78-94: the summary and the exit status
ValExit ==
    /\ vpc = "classify" /\ vtodo = <<>>
    /\ vexit' = IF missing # <<>> THEN 1 ELSE 0
    /\ vpc' = "done"
    /\ UNCHANGED <<scriptFiles, valDoc, vfile, scriptVars, configVars, vtodo, present, missing>>
    /\ ValOnly

ValNext ==
    \/ ValReadScript
    \/ ValLoadConfig
    \/ ValClassify
    \/ ValExit

----------------------------------------------------------------------------
(* ======================  VARIABLE RENAMING  =========================== *)

\* Most files of files_to_update.
MaxTargets == 2

LPAREN == "("
RPAREN == ")"
GET_CONFIG_VALUE == "get_config_value"

\* VARIABLE_MAPPING.items(), two of its pairs
VARIABLE_MAPPING == << <<"tenant", "azure_tenant_id">>, <<"location", "target_location">> >>

\* The pieces of a pattern: a unit, \s*, or a quote character.
Lit(u) == [kind |-> "lit", unit |-> u]
Spaces == [kind |-> "spaces", unit |-> ""]
AnyQuote == [kind |-> "quote", unit |-> ""]

\* lines 63, 70, 77, 84: the four patterns for old_var
Pattern1(old_var) == <<Lit(LBRACE), Lit(LBRACE), Spaces, Lit(old_var), Spaces, Lit(RBRACE), Lit(RBRACE)>>
Pattern2(old_var) == <<Spaces, Lit(old_var), Spaces, Lit(COLON)>>
Pattern3(old_var) == <<AnyQuote, Spaces, Lit(old_var), Spaces, AnyQuote>>
Pattern4(old_var) ==
    <<Lit(GET_CONFIG_VALUE), Spaces, Lit(LPAREN), Spaces, AnyQuote, Spaces, Lit(old_var),
      Spaces, AnyQuote, Spaces, Lit(RPAREN)>>

\* the index after the match of the pieces of pat from p on at index i of
\* text, 0 when they do not match there
RECURSIVE MatchEnd(_, _, _, _)
MatchEnd(text, i, pat, p) ==
    IF p > Len(pat) THEN i
    ELSE IF pat[p].kind = "spaces" THEN MatchEnd(text, SkipWs(text, i), pat, p + 1)
    ELSE IF i > Len(text) THEN 0
    ELSE IF pat[p].kind = "quote"
    THEN (IF text[i] \in {APOSTROPHE, QUOTE} THEN MatchEnd(text, i + 1, pat, p + 1) ELSE 0)
    ELSE (IF text[i] = pat[p].unit THEN MatchEnd(text, i + 1, pat, p + 1) ELSE 0)

\* index i of text is where ^ matches with re.MULTILINE
AtLineStart(text, i) == i = 1 \/ text[i - 1] = LF

\* re.search(pattern, content): the pattern matches somewhere
Search(text, pat, anchored) ==
    \E i \in 1..(Len(text) + 1) :
        (anchored => AtLineStart(text, i)) /\ MatchEnd(text, i, pat, 1) # 0

\* the replacement of one match: the given text, or with keep the matched
\* text with new_var in the place of old_var (\g<1> new_var \g<2>)
RECURSIVE ReplaceUnit(_, _, _)
ReplaceUnit(text, old, new) ==
    IF text = <<>> THEN <<>>
    ELSE <<IF text[1] = old THEN new ELSE text[1]>> \o ReplaceUnit(Tail(text), old, new)

\* re.sub(pattern, replacement, content) from index i on
RECURSIVE Sub(_, _, _, _, _, _)
Sub(text, i, pat, anchored, repl, keep) ==
    IF i > Len(text) THEN <<>>
    ELSE LET e == IF anchored /\ ~AtLineStart(text, i) THEN 0 ELSE MatchEnd(text, i, pat, 1)
         IN IF e > i
            THEN (IF keep.on THEN ReplaceUnit(SubSeq(text, i, e - 1), keep.old, keep.new) ELSE repl)
                 \o Sub(text, e, pat, anchored, repl, keep)
            ELSE <<text[i]>> \o Sub(text, i + 1, pat, anchored, repl, keep)

NoKeep == [on |-> FALSE, old |-> "", new |-> ""]

\* lines 62-88: the four replacements for one pair of VARIABLE_MAPPING
RenameOne(content, old_var, new_var) ==
    LET c1 == Sub(content, 1, Pattern1(old_var), FALSE,
                  <<LBRACE, LBRACE, new_var, RBRACE, RBRACE>>, NoKeep)
        c2 == Sub(c1, 1, Pattern2(old_var), TRUE, <<>>,
                  [on |-> TRUE, old |-> old_var, new |-> new_var])
        c3 == Sub(c2, 1, Pattern3(old_var), FALSE, <<APOSTROPHE, new_var, APOSTROPHE>>, NoKeep)
        c4 == Sub(c3, 1, Pattern4(old_var), FALSE,
                  <<GET_CONFIG_VALUE, LPAREN, QUOTE, new_var, QUOTE, RPAREN>>, NoKeep)
    IN c4

\* lines 61-88: the loop over VARIABLE_MAPPING from pair n on
RECURSIVE RenameFrom(_, _)
RenameFrom(content, n) ==
    IF n > Len(VARIABLE_MAPPING) THEN content
    ELSE RenameFrom(RenameOne(content, VARIABLE_MAPPING[n][1], VARIABLE_MAPPING[n][2]), n + 1)

RenameAll(content) == RenameFrom(content, 1)

\* lines 65-88, 90: changes_made is not empty: some search succeeded
RECURSIVE ChangesFrom(_, _)
ChangesFrom(content, n) ==
    IF n > Len(VARIABLE_MAPPING) THEN FALSE
    ELSE LET old_var == VARIABLE_MAPPING[n][1]
             new_var == VARIABLE_MAPPING[n][2]
             c1 == Sub(content, 1, Pattern1(old_var), FALSE,
                       <<LBRACE, LBRACE, new_var, RBRACE, RBRACE>>, NoKeep)
             c2 == Sub(c1, 1, Pattern2(old_var), TRUE, <<>>,
                       [on |-> TRUE, old |-> old_var, new |-> new_var])
             c3 == Sub(c2, 1, Pattern3(old_var), FALSE, <<APOSTROPHE, new_var, APOSTROPHE>>, NoKeep)
         IN \/ Search(content, Pattern1(old_var), FALSE)
            \/ Search(c1, Pattern2(old_var), TRUE)
            \/ Search(c2, Pattern3(old_var), FALSE)
            \/ Search(c3, Pattern4(old_var), FALSE)
            \/ ChangesFrom(RenameOne(content, old_var, new_var), n + 1)

ChangesMade(content) == ChangesFrom(content, 1)

\* ---- the files and the answers ----

\* contents of a target file before the run
TemplateText == <<LBRACE, LBRACE, SP, "location", SP, RBRACE, RBRACE, LF, SP, "tenant", COLON,
                  SP, "v", LF, "x", "tenant", COLON>>
ScriptText == <<"cfg", LBRACKET, APOSTROPHE, "tenant", APOSTROPHE, RBRACKET, GET_CONFIG_VALUE,
                LPAREN, QUOTE, "tenant", QUOTE, RPAREN>>
StandardText == <<LBRACE, LBRACE, "azure_tenant_id", RBRACE, RBRACE, LF>>
RenTexts == {TemplateText, ScriptText, StandardText, <<LBRACE, LBRACE, "tenant", RBRACE, RBRACE>>}

InitRenFiles == [1..MaxTargets -> {NoFile} \cup {File(t) : t \in RenTexts}]

\* lines typed at "Run in dry-run mode first? (y/N): "
ModeLines == {"", Blank, "y", "Y", "yes", "n", "N"}

RenIdle ==
    /\ renFiles = <<>>
    /\ renDryRun = FALSE
    /\ rpc = "idle"
    /\ rfile = 0
    /\ renContent = <<>>
    /\ rhist = [files0 |-> <<>>, answer |-> "", readFailed |-> {}, ioFailed |-> FALSE]

\* main up to the prompt of line 130
RenInit ==
    /\ renFiles \in InitRenFiles
    /\ renDryRun = FALSE
    /\ rpc = "ask"
    /\ rfile = 0
    /\ renContent = <<>>
    /\ rhist = [files0 |-> renFiles, answer |-> "", readFailed |-> {}, ioFailed |-> FALSE]

RenOnly == UNCHANGED <<coreVars, loadVars, inputVars, peerVars, valVars, diagVars, uuidVars>>

\* update_file_variables returns, or main skips the file: the next file of the loop
RenAdvance == rpc' = "files" /\ rfile' = rfile + 1

\* lines 130-131: response = input(...).strip().lower(); dry_run = response in ['y', 'yes']
RenAsk(line) ==
    /\ rpc = "ask"
    /\ renDryRun' = (LowerAnswer(StripLine(line)) \in {"y", "yes"})
    /\ rhist' = [rhist EXCEPT !.answer = line]
    /\ rpc' = "files"
    /\ rfile' = 1
    /\ UNCHANGED <<renFiles, renContent>>
    /\ RenOnly

\* lines 140-144: file_path.exists() is false
RenMissing ==
    /\ rpc = "files" /\ rfile <= Len(renFiles)
    /\ ~renFiles[rfile].exists
    /\ RenAdvance
    /\ UNCHANGED <<renFiles, renDryRun, renContent, rhist>>
    /\ RenOnly

\* lines 53-102: the file is read, the replacements are made in content, and
\* the file is opened for writing only with changes_made and not dry_run
RenUpdate ==
    /\ rpc = "files" /\ rfile <= Len(renFiles)
    /\ renFiles[rfile].exists
    /\ renContent' = RenameAll(renFiles[rfile].data)
    /\ IF ChangesMade(renFiles[rfile].data) /\ ~renDryRun
       THEN rpc' = "open" /\ UNCHANGED rfile
       ELSE RenAdvance
    /\ UNCHANGED <<renFiles, renDryRun, rhist>>
    /\ RenOnly

\* lines 54-55, 104-105: the read raises an Exception, which is reported
RenReadFail ==
    /\ rpc = "files" /\ rfile <= Len(renFiles)
    /\ renFiles[rfile].exists
    /\ rhist' = [rhist EXCEPT !.readFailed = @ \cup {rfile}]
    /\ RenAdvance
    /\ UNCHANGED <<renFiles, renDryRun, renContent>>
    /\ RenOnly

\* line 96: open(file_path, 'w') truncates the file
RenOpen ==
    /\ rpc = "open"
    /\ renFiles' = [renFiles EXCEPT ![rfile].data = <<>>]
    /\ rpc' = "write"
    /\ UNCHANGED <<renDryRun, rfile, renContent, rhist>>
    /\ RenOnly

\* lines 96, 104-105: open raises an Exception, the file is as it was
RenOpenFail ==
    /\ rpc = "open"
    /\ rhist' = [rhist EXCEPT !.ioFailed = TRUE]
    /\ RenAdvance
    /\ UNCHANGED <<renFiles, renDryRun, renContent>>
    /\ RenOnly

\* line 97: f.write(content), a chunk at a time
RenWriteChunk ==
    /\ rpc = "write"
    /\ renFiles' = [renFiles EXCEPT ![rfile].data = @ \o NextChunk(renContent, @)]
    /\ IF renFiles'[rfile].data = renContent
       THEN RenAdvance
       ELSE UNCHANGED <<rpc, rfile>>
    /\ UNCHANGED <<renDryRun, renContent, rhist>>
    /\ RenOnly

\* lines 97, 104-105: the write raises an Exception, which is reported
RenWriteFail ==
    /\ rpc = "write"
    /\ rhist' = [rhist EXCEPT !.ioFailed = TRUE]
    /\ RenAdvance
    /\ UNCHANGED <<renFiles, renDryRun, renContent>>
    /\ RenOnly

\* KeyboardInterrupt during the write: no Exception, it ends the run
RenWriteInterrupt ==
    /\ rpc = "write"
    /\ rhist' = [rhist EXCEPT !.ioFailed = TRUE]
    /\ rpc' = "raised"
    /\ UNCHANGED <<renFiles, renDryRun, rfile, renContent>>
    /\ RenOnly

\* lines 146-152: the loop is over, the summary is printed
RenSummary ==
    /\ rpc = "files" /\ rfile > Len(renFiles)
    /\ rpc' = "done"
    /\ UNCHANGED <<renFiles, renDryRun, rfile, renContent, rhist>>
    /\ RenOnly

RenNext ==
    \/ \E line \in ModeLines : RenAsk(line)
    \/ RenMissing
    \/ RenUpdate
    \/ RenReadFail
    \/ RenOpen
    \/ RenOpenFail
    \/ RenWriteChunk
    \/ RenWriteFail
    \/ RenWriteInterrupt
    \/ RenSummary

----------------------------------------------------------------------------
(* ======================  YAML DIAGNOSTIC  ============================= *)

\* Most lines of a file the diagnostic is run on.
MaxDiagLines == 3

\* line 32: encodings_to_try of diagnose_yaml_file
diag_encodings == <<"utf-8", "utf-8-sig", "latin-1", "cp1252">>

\* lines 36-44: the first encoding that decodes the file
RECURSIVE DiagReadWith(_, _)
DiagReadWith(d, i) ==
    IF i > Len(diag_encodings) THEN [ok |-> FALSE, text |-> <<>>]
    ELSE LET r == DecodeWith(diag_encodings[i], d)
         IN IF r.ok THEN [ok |-> TRUE, text |-> UniversalNewlines(r.text)]
            ELSE DiagReadWith(d, i + 1)

\* lines 53-55: one byte order mark at the start is removed
StripBom(text) == IF text # <<>> /\ text[1] = BOM THEN Tail(text) ELSE text

\* key in config_data: a path of one key, the key a word
HasSection(p, name) == << <<name>> >> \in DOMAIN p.map

\* lines 79-129: the value diagnose_yaml_file returns for file_content
DiagnoseContent(text) ==
    LET p == ParseYaml(text)
    IN p.ok /\ p.kind = "map"

\* The lines of the files, each ended by LF.
DiagLines ==
    { <<"variables", COLON, LF>>, <<"secrets", COLON, LF>>, <<SP, SP, "k", COLON, SP, "v", LF>>,
      <<"k", COLON, SP, "v", LF>>, <<"text", LF>>, <<TAB, "k", COLON, SP, "v", LF>>,
      <<"k", COLON, SP, "E9byte", LF>> }

RECURSIVE Flatten(_)
Flatten(ss) == IF ss = <<>> THEN <<>> ELSE ss[1] \o Flatten(Tail(ss))

InitDiagDocuments ==
    { bom \o Flatten(lines) :
        bom \in {<<>>, <<BOM>>},
        lines \in UNION { [1..n -> DiagLines] : n \in 1..MaxDiagLines } }

DiagIdle == diagFile = NoFile /\ dpc = "idle" /\ diagContent = <<>> /\ diagExit = -1

\* main with one argument: diagnose_yaml_file(config_file) is called
DiagInit ==
    /\ diagFile \in {NoFile, File(<<>>)} \cup { File(d) : d \in InitDiagDocuments }
    /\ dpc = "check" /\ diagContent = <<>> /\ diagExit = -1

DiagOnly == UNCHANGED <<coreVars, loadVars, inputVars, peerVars, valVars, renVars, uuidVars>>

\* lines 140-151: diagnose_yaml_file returns success, main returns the status
DiagReturn(success) == dpc' = "done" /\ diagExit' = IF success THEN 0 ELSE 1

\* lines 19-21: the file does not exist
DiagMissing ==
    /\ dpc = "check" /\ ~diagFile.exists
    /\ DiagReturn(FALSE)
    /\ UNCHANGED <<diagFile, diagContent>>
    /\ DiagOnly

\* lines 24-29: the file is empty
DiagEmpty ==
    /\ dpc = "check" /\ diagFile.exists /\ diagFile.data = <<>>
    /\ DiagReturn(FALSE)
    /\ UNCHANGED <<diagFile, diagContent>>
    /\ DiagOnly

\* lines 32-55: the file is read and a byte order mark removed
DiagRead ==
    /\ dpc = "check" /\ diagFile.exists /\ diagFile.data # <<>>
    /\ LET r == DiagReadWith(diagFile.data, 1)
       IN IF r.ok
          THEN diagContent' = StripBom(r.text) /\ dpc' = "parse" /\ UNCHANGED diagExit
          ELSE DiagReturn(FALSE) /\ UNCHANGED diagContent
    /\ UNCHANGED diagFile
    /\ DiagOnly

\* line 38: open raises OSError, which nothing handles: the interpreter
\* prints the traceback and exits with status 1
DiagOpenFail ==
    /\ dpc = "check" /\ diagFile.exists /\ diagFile.data # <<>>
    /\ dpc' = "raised" /\ diagExit' = 1
    /\ UNCHANGED <<diagFile, diagContent>>
    /\ DiagOnly

\* lines 79-129 and 140-151: the parse, and the exit status
DiagParse ==
    /\ dpc = "parse"
    /\ DiagReturn(DiagnoseContent(diagContent))
    /\ UNCHANGED <<diagFile, diagContent>>
    /\ DiagOnly

DiagNext ==
    \/ DiagMissing
    \/ DiagEmpty
    \/ DiagRead
    \/ DiagOpenFail
    \/ DiagParse

----------------------------------------------------------------------------
(* ======================  validate_uuid  =============================== *)
(* A value is a sequence of characters.  "1" stands for a decimal digit,   *)
(* "a" for a letter a-f, "A" for a letter A-F and "g" for any other        *)
(* letter.                                                                 *)

HYPHEN == "-"

\* line 133: the lengths of the groups of uuid_pattern
UuidGroups == <<8, 4, 4, 4, 12>>

\* [0-9a-f] with re.IGNORECASE
HexChars == {"1", "a", "A"}

\* the index after n characters of HexChars from index i on, 0 when there
\* are fewer
RECURSIVE MatchHex(_, _, _)
MatchHex(value, i, n) ==
    IF n = 0 THEN i
    ELSE IF i <= Len(value) /\ value[i] \in HexChars THEN MatchHex(value, i + 1, n - 1)
    ELSE 0

\* the groups of uuid_pattern from group g on match at index i, up to $
RECURSIVE MatchGroups(_, _, _)
MatchGroups(value, i, g) ==
    LET e == MatchHex(value, i, UuidGroups[g])
    IN IF e = 0 THEN FALSE
       ELSE IF g < Len(UuidGroups)
       THEN e <= Len(value) /\ value[e] = HYPHEN /\ MatchGroups(value, e + 1, g + 1)
       \* $ matches at the end of the string and before a newline that ends it
       ELSE e = Len(value) + 1 \/ (e = Len(value) /\ value[e] = LF)

\* line 134: re.match(uuid_pattern, value, re.IGNORECASE)
MatchesUuidPattern(value) == MatchGroups(value, 1, 1)

\* ---- the values validate_uuid is called with ----

\* a group of n characters c, the one at index bad replaced by "g"
Group(n, c, bad) == [i \in 1..n |-> IF i = bad THEN "g" ELSE c]

\* the lengths of the groups of a value: those of the pattern, one of them
\* longer or shorter by one, one group missing, or one group more
GroupLengths ==
    {UuidGroups}
    \cup { [UuidGroups EXCEPT ![g] = @ + d] : g \in DOMAIN UuidGroups, d \in {-1, 1} }
    \cup { SubSeq(UuidGroups, 1, Len(UuidGroups) - 1), Tail(UuidGroups), Append(UuidGroups, 4) }

RECURSIVE JoinGroups(_, _, _, _)
JoinGroups(lens, c, badGroup, g) ==
    IF g > Len(lens) THEN <<>>
    ELSE Group(lens[g], c, IF g = badGroup THEN 1 ELSE 0)
         \o (IF g < Len(lens) THEN <<HYPHEN>> ELSE <<>>)
         \o JoinGroups(lens, c, badGroup, g + 1)

InitUuidValues ==
    { pre \o JoinGroups(lens, c, badGroup, 1) \o post :
        pre \in {<<>>, <<SP>>}, post \in {<<>>, <<LF>>, <<SP>>, <<LF, LF>>},
        lens \in GroupLengths, c \in HexChars, badGroup \in {0, 1, 5} }

UuidIdle == uuidValue = <<>> /\ uuidResult = "idle"

UuidInit == uuidValue \in InitUuidValues /\ uuidResult = "none"

UuidOnly == UNCHANGED <<coreVars, loadVars, inputVars, peerVars, valVars, renVars, diagVars>>

\* lines 134-135: validate_uuid returns
UuidReturn ==
    /\ uuidResult = "none"
    /\ MatchesUuidPattern(uuidValue)
    /\ uuidResult' = "returned"
    /\ UNCHANGED uuidValue
    /\ UuidOnly

\* lines 134-135: validate_uuid raises ValueError
UuidRaise ==
    /\ uuidResult = "none"
    /\ ~MatchesUuidPattern(uuidValue)
    /\ uuidResult' = "raised"
    /\ UNCHANGED uuidValue
    /\ UuidOnly

UuidNext ==
    \/ UuidReturn
    \/ UuidRaise

----------------------------------------------------------------------------
(* ======================  SPECIFICATIONS  ============================== *)

\* one run of the setup wizard
\* the tools that are not running
ExtIdle == LoadIdle /\ InputIdle /\ PeerIdle /\ ValIdle /\ RenIdle /\ DiagIdle /\ UuidIdle

InitWizard == WizInit /\ FixIdle /\ SubIdle /\ ExtIdle
SpecWizard == InitWizard /\ [][WizNext]_vars

\* runs of the YAML auto-repair tool on one file
InitFix == WizIdle /\ FixInit /\ SubIdle /\ ExtIdle
SpecFix == InitFix /\ [][FixNext]_vars

\* runs of the template substitution tool on one template
InitSub == WizIdle /\ FixIdle /\ SubInit /\ ExtIdle
SpecSub == InitSub /\ [][SubNext]_vars

\* runs of the two loaders of the merged variables on one configuration
CoreIdle == WizIdle /\ FixIdle /\ SubIdle
InitLoad == CoreIdle /\ LoadInit /\ InputIdle /\ PeerIdle /\ ValIdle /\ RenIdle /\ DiagIdle /\ UuidIdle
SpecLoad == InitLoad /\ [][LoadNext]_vars

\* one call of get_input
InitInput == CoreIdle /\ LoadIdle /\ InputInit /\ PeerIdle /\ ValIdle /\ RenIdle /\ DiagIdle /\ UuidIdle
SpecInput == InitInput /\ [][InputNext]_vars

\* one call of collect_peer_addresses
InitPeer == CoreIdle /\ LoadIdle /\ InputIdle /\ PeerInit /\ ValIdle /\ RenIdle /\ DiagIdle /\ UuidIdle
SpecPeer == InitPeer /\ [][PeerNext]_vars

\* one run of the variable validator
InitVal == CoreIdle /\ LoadIdle /\ InputIdle /\ PeerIdle /\ ValInit /\ RenIdle /\ DiagIdle /\ UuidIdle
SpecVal == InitVal /\ [][ValNext]_vars

InitRen == CoreIdle /\ LoadIdle /\ InputIdle /\ PeerIdle /\ ValIdle /\ RenInit /\ DiagIdle /\ UuidIdle
SpecRen == InitRen /\ [][RenNext]_vars

InitDiag == CoreIdle /\ LoadIdle /\ InputIdle /\ PeerIdle /\ ValIdle /\ RenIdle /\ DiagInit /\ UuidIdle
SpecDiag == InitDiag /\ [][DiagNext]_vars

InitUuid == CoreIdle /\ LoadIdle /\ InputIdle /\ PeerIdle /\ ValIdle /\ RenIdle /\ DiagIdle /\ UuidInit
SpecUuid == InitUuid /\ [][UuidNext]_vars

----------------------------------------------------------------------------
(* ======================  CLAIMS: SETUP WIZARD  ======================== *)

\* the backup of this save is completely written and holds the pre-save content
BackupHoldsPreSave ==
    /\ whist.backupDone
    /\ diskBackups[whist.backupName] = whist.preSave

\* C1: when the configuration file exists at the start of save_configuration,
\* the backup holding exactly the pre-save content is complete before the
\* configuration file is opened for writing, so that in every state of the
\* save (an interrupted write included) the pre-save content is intact in the
\* configuration file or in the backup.
C1_BackupBeforeOverwrite ==
    (whist.saveStarted /\ whist.preSave.exists) =>
        /\ (wpc = "write" => BackupHoldsPreSave)
        /\ (diskConfig = whist.preSave \/ BackupHoldsPreSave)

\* C1 witness: a write that was interrupted after the file was truncated;
\* the pre-save content is only in the backup
C1_Witness ==
    /\ wpc = "done" /\ whist.writeFailed /\ whist.preSave.exists
    /\ diskConfig # whist.preSave
    /\ BackupHoldsPreSave

\* C2: if the write fails after the file was opened for writing and a prior
\* version existed, then when run_wizard returns the file holds the complete
\* previous content or the complete new serialization.
C2_FailedWriteLeavesWholeFile ==
    (wpc = "done" /\ whist.writeFailed /\ whist.preSave.exists) =>
        diskConfig.data \in {whist.preSave.data, Serialize(config)}

\* C3: an interrupt at any prompt before the save confirmation is answered
\* writes nothing: the configuration file and the backup directory are as
\* they were before the run (and nothing is written before the confirmation
\* is answered at all).
C3_CancelWritesNothing ==
    (whist.cancelled \/ ~whist.saveStarted) =>
        /\ diskConfig = whist.config0
        /\ diskBackups = whist.backups0

\* C3 witness: the run was interrupted after values that differ from the
\* file's were collected in memory
C3_Witness ==
    /\ wpc = "done" /\ whist.cancelled /\ wresult = "false"
    /\ diskConfig = File(Serialize(OldConfigA))
    /\ "target_resource_group" \in DOMAIN config.variables
    /\ config.variables["target_resource_group"] = "Premium"

----------------------------------------------------------------------------
(* Claims about the YAML auto-repair tool (SpecFix) *)

\* the text the tool decodes from a file
TextOf(file) == ReadFile(file.data).text

\* C4: when the repaired text still fails to parse, the run returns False and
\* leaves the configuration file and any existing .backup file as they were
\* when the run started; nothing has been opened for writing.
C4_ParseFailureWritesNothing ==
    fhist.run.parseFailed =>
        /\ fpc = "done" => fixResult = "false"
        /\ fixFile = fhist.run.runStart
        /\ fixBackup = fhist.run.backupStart
        /\ ~fhist.run.truncated

\* a run that repaired the text in memory, failed to parse it, and returned
\* with the file and an older .backup file untouched
C4_Witness ==
    /\ fpc = "done" /\ fhist.run.parseFailed /\ fixResult = "false"
    /\ fixesApplied # {}
    /\ fixText # TextOf(fixFile)
    /\ fixBackup.exists /\ fixBackup.data # fixFile.data

\* C5: the .backup copy of the original is complete before the file is opened
\* for writing, and a run whose write failed and that returns, returns False
\* with the file holding its original content again.
C5_WriteFailureRestores ==
    /\ (fhist.run.truncated \/ fpc \in {"open", "write", "restore", "restoring"}) =>
            fixBackup = File(fhist.run.runStart.data)
    /\ (fpc = "done" /\ fhist.run.writeFailed /\ fixResult # "raised") =>
            /\ fixResult = "false"
            /\ fixFile = fhist.run.runStart

\* a run whose write failed after the file was truncated and partly written
\* with different content, and that restored the original
C5_Witness ==
    /\ fpc = "done" /\ fhist.run.writeFailed /\ fhist.run.truncated
    /\ fixResult = "false"
    /\ fixesApplied # {}
    /\ fixFile = fhist.run.runStart
    /\ fixText # TextOf(fixFile)

\* C6: a successful repair of a file that parses as a configuration leaves
\* the parsed data as it was: the same keys with the same values.
C6_RepairPreservesData ==
    (fpc = "done" /\ fixResult = "true" /\ IsConfiguration(fhist.run.startParse)) =>
        ParseYaml(TextOf(fixFile)) = fhist.run.startParse

\* C7: when the file was valid YAML before the first run and no run met an
\* I/O failure, the second run applies no fix, leaves the file identical to
\* what the first run left, and returns True.
C7_SecondRunChangesNothing ==
    (fixRuns = 2 /\ fpc = "done" /\ fhist.first.valid /\ ~fhist.ioFailed) =>
        /\ fixesApplied = {}
        /\ fixFile = fhist.first.after
        /\ fixResult = "true"

----------------------------------------------------------------------------
(* Claims about the template substitution tool (SpecSub) *)

\* the value of a key of vs
RECURSIVE ValueOf(_, _)
ValueOf(vs, key) == IF vs[1][1] = key THEN vs[1][2] ELSE ValueOf(Tail(vs), key)

\* no value holds a brace: a placeholder in the output is one of the template
ValuesPlain == \A n \in DOMAIN allVars : ~Contains(Str(allVars[n][2]), LBRACE)

\* C8: in the output of _substitute no placeholder {{k}} of a key k of
\* merged_vars is left from the template, source_peer_addresses included,
\* whatever its value and wherever its placeholder stands.
C8_EveryDefinedPlaceholderReplaced ==
    (spc = "done" /\ ValuesPlain) =>
        \A k \in Keys(allVars) : ~ContainsSeq(subResult, Placeholder(k))

\* the stored source_peer_addresses is the JSON text of an array of two or
\* more addresses
PeersIsArrayText ==
    /\ PEERS \in Keys(allVars)
    /\ ValueOf(allVars, PEERS).type = "str"
    /\ LET p == JsonLoads(ValueOf(allVars, PEERS).units)
       IN p.ok /\ p.val.kind = "list" /\ Len(p.val.items) >= 2

\* the texts around the wrapped placeholder in the templates of claim C9
PlainTexts == { <<>>, <<"text">> }

\* the text without its spaces
RECURSIVE NoSpaces(_)
NoSpaces(s) ==
    IF s = <<>> THEN <<>>
    ELSE IF s[1] = SP THEN NoSpaces(Tail(s)) ELSE <<s[1]>> \o NoSpaces(Tail(s))

\* C9 as stated: in url mode the wrapped placeholder is replaced by exactly
\* the stored array text, character for character.
C9_WrappedPeersBecomeStoredText ==
    (spc = "done" /\ mode = "url" /\ PeersIsArrayText) =>
        \A pre \in PlainTexts, post \in PlainTexts :
            template = pre \o Wrapped(PEERS) \o post =>
                subResult = pre \o Str(ValueOf(allVars, PEERS)) \o post

\* C9 amended: in url mode the wrapped placeholder is replaced by one bare
\* array, the stored array serialized anew: it holds the stored addresses in
\* their order, separated by a comma and a space, so it equals the stored text
\* up to spaces, and character for character exactly when the stored text
\* already has a comma and a space between its addresses.
C9_WrappedPeersBecomeArray ==
    (spc = "done" /\ mode = "url" /\ PeersIsArrayText) =>
        \A pre \in PlainTexts, post \in PlainTexts :
            template = pre \o Wrapped(PEERS) \o post =>
                LET stored == Str(ValueOf(allVars, PEERS))
                    array == SubSeq(subResult, Len(pre) + 1, Len(subResult) - Len(post))
                IN /\ subResult = pre \o array \o post
                   /\ array[1] = LBRACKET /\ array[Len(array)] = RBRACKET
                   /\ \A n \in 2..(Len(array) - 1) : array[n] \notin {LBRACKET, RBRACKET}
                   /\ NoSpaces(array) = NoSpaces(stored)
                   /\ \A n \in 1..(Len(array) - 1) : (array[n] = COMMA) <=> (array[n + 1] = SP)
                   /\ (array = stored) <=>
                          \A n \in 1..(Len(stored) - 1) : (stored[n] = COMMA) <=> (stored[n + 1] = SP)

\* the example of the claim: the stored text has no space after the comma,
\* the output has one
C9_Witness ==
    /\ spc = "done" /\ mode = "url"
    /\ template = Wrapped(PEERS)
    /\ PEERS \in Keys(allVars) /\ ValueOf(allVars, PEERS) = StrValue(CompactPeers)
    /\ subResult = SpacedPeers

\* the wrapped placeholder stands for source_peer_addresses when the stored
\* value is the text of an array
PeersIsWrappedIn(t) ==
    /\ StartsWith(t, Wrapped(PEERS))
    /\ PEERS \in Keys(allVars)
    /\ LET p == JsonLoads(Str(ValueOf(allVars, PEERS))) IN p.ok /\ p.val.kind = "list"

\* out is the template text t with nothing changed but the placeholders of
\* the keys of merged_vars, each replaced by some text
RECURSIVE Frame(_, _)
Frame(t, out) ==
    IF t = <<>> THEN out = <<>>
    ELSE \/ /\ out # <<>> /\ out[1] = t[1]
            /\ ~\E k \in Keys(allVars) : StartsWith(t, Placeholder(k))
            /\ ~PeersIsWrappedIn(t)
            /\ Frame(Tail(t), Tail(out))
         \/ \E k \in Keys(allVars) :
               /\ StartsWith(t, Placeholder(k))
               /\ \E n \in 0..Len(out) : Frame(Drop(t, Len(Placeholder(k))), Drop(out, n))
         \/ /\ PeersIsWrappedIn(t)
            /\ \E n \in 0..Len(out) : Frame(Drop(t, Len(Wrapped(PEERS))), Drop(out, n))

\* the number of times old occurs in s
RECURSIVE Count(_, _)
Count(s, old) ==
    IF Len(s) < Len(old) THEN 0
    ELSE (IF StartsWith(s, old) THEN 1 ELSE 0) + Count(Tail(s), old)

RECURSIVE SpacesAfter(_, _)
SpacesAfter(s, i) == IF i < Len(s) /\ s[i + 1] = SP THEN 1 + SpacesAfter(s, i + 1) ELSE 0

\* s is laid out with 2-space indentation from index i on, where depth arrays
\* are open and inString tells whether index i is inside a JSON string:
\* every item of an array and the bracket that closes it start a line,
\* indented by two spaces for every array open around them, and there is no
\* other space outside the strings
RECURSIVE IndentedFrom(_, _, _, _)
IndentedFrom(s, i, inString, depth) ==
    IF i > Len(s) THEN TRUE
    ELSE IF s[i] = QUOTE THEN IndentedFrom(s, i + 1, ~inString, depth)
    ELSE IF inString THEN IndentedFrom(s, i + 1, inString, depth)
    ELSE IF s[i] = COMMA
    THEN i < Len(s) /\ s[i + 1] = LF /\ IndentedFrom(s, i + 1, FALSE, depth)
    ELSE IF s[i] = LBRACKET
    THEN i < Len(s) /\ s[i + 1] \in {LF, RBRACKET} /\ IndentedFrom(s, i + 1, FALSE, depth + 1)
    ELSE IF s[i] = RBRACKET THEN IndentedFrom(s, i + 1, FALSE, depth - 1)
    ELSE IF s[i] = LF
    THEN LET n == SpacesAfter(s, i)
         IN /\ i + n < Len(s)
            /\ n = 2 * (IF s[i + n + 1] = RBRACKET THEN depth - 1 ELSE depth)
            /\ IndentedFrom(s, i + n + 1, FALSE, depth)
    ELSE IF s[i] = SP THEN FALSE
    ELSE IndentedFrom(s, i + 1, FALSE, depth)

TwoSpaceIndented(s) == IndentedFrom(s, 1, FALSE, 0)

\* C11: in body mode the step after the loop returns, no exception escapes
\* it: when the substituted text parses as JSON the result is a text with
\* 2-space indentation that parses to the same JSON value, otherwise the
\* result is the substituted text itself.
C11_BodyModeFormatsJson ==
    /\ [][(mode = "body" /\ spc = "loop" /\ skey > Len(allVars)) => spc' = "done"]_vars
    /\ []((spc = "done" /\ mode = "body") =>
            IF JsonLoads(data).ok
            THEN /\ JsonLoads(subResult).ok
                 /\ JsonLoads(subResult).val = JsonLoads(data).val
                 /\ TwoSpaceIndented(subResult)
            ELSE subResult = data)

\* a body template that becomes an array of two addresses, laid out on four
\* lines
C11_Witness ==
    /\ spc = "done" /\ mode = "body"
    /\ template = Wrapped(PEERS)
    /\ data = SpacedPeers
    /\ subResult = <<LBRACKET, LF, SP, SP, QUOTE, IP1, QUOTE, COMMA, LF,
                     SP, SP, QUOTE, IP2, QUOTE, LF, RBRACKET>>

----------------------------------------------------------------------------
(* Claims about the loaders of the merged variables (SpecLoad) *)

\* both sections of the configuration are mappings, and a key is in both
KeyInBothSections ==
    /\ configDoc.kind = "map"
    /\ configDoc.variables.kind = "map" /\ configDoc.secrets.kind = "map"
    /\ Keys(configDoc.variables.items) \cap Keys(configDoc.secrets.items) # {}

\* C12: for a configuration with a key in both sections, either loader
\* returns a mapping whose keys are the union of the keys of the sections,
\* with the secrets value for a key of secrets and the variables value for
\* any other key.
C12_SecretsOverrideVariables ==
    (lpc = "done" /\ KeyInBothSections) =>
        /\ loadResult = "ok"
        /\ DistinctKeys(merged)
        /\ Keys(merged) = Keys(configDoc.variables.items) \cup Keys(configDoc.secrets.items)
        /\ \A k \in Keys(merged) :
              ValueOf(merged, k) = IF k \in Keys(configDoc.secrets.items)
                                   THEN ValueOf(configDoc.secrets.items, k)
                                   ELSE ValueOf(configDoc.variables.items, k)

\* _load_all_vars has merged a configuration where k1 is in both sections
\* with different values and k2 is in variables only
C12_Witness ==
    /\ lpc = "done" /\ loader = "template" /\ loadResult = "ok"
    /\ configDoc.variables = MapSection(<<<<"k1", "v1">>, <<"k2", "v1">>>>)
    /\ configDoc.secrets = MapSection(<<<<"k1", "v2">>>>)
    /\ merged = <<<<"k1", "v2">>, <<"k2", "v1">>>>

----------------------------------------------------------------------------
(* Claims about get_input (SpecInput) *)

\* the call of claim C13: required, no current value, a validator
RequiredValidatedCall ==
    giArgs.required /\ giArgs.current_value = "" /\ giArgs.validator # "none"

\* the line is the word skip, which get_input does not validate
IsSkipWord(line) == Lower(ValueRead(line, giArgs.secret)) = "skip"

\* get_input rejects the line: it is empty, or the validator raises on it
IsRejected(line) ==
    /\ ~IsSkipWord(line)
    /\ \/ ValueRead(line, giArgs.secret) = ""
       \/ ~Validate(giArgs.validator, ValueRead(line, giArgs.secret))

\* the validator accepts the line
IsAccepted(line) ==
    /\ ~IsSkipWord(line)
    /\ ValueRead(line, giArgs.secret) # ""
    /\ Validate(giArgs.validator, ValueRead(line, giArgs.secret))

\* C13: in a call with required=True, no current value and a validator,
\* after k rejected lines the call has shown k prompts and is at the next
\* one; after k rejected lines and one accepted line it has shown k+1 prompts
\* and returned the accepted value; a rejected line is never returned.
C13_RepromptsUntilAccepted ==
    (RequiredValidatedCall /\ giReturn.state # "raised"
       /\ \A n \in 1..(Len(giInputs) - 1) : IsRejected(giInputs[n])) =>
        /\ giPrompts = Len(giInputs)
        /\ (giInputs # <<>> /\ IsRejected(giInputs[Len(giInputs)])) => giReturn.state = "running"
        /\ (giInputs # <<>> /\ IsAccepted(giInputs[Len(giInputs)])) =>
              /\ giReturn.state = "returned"
              /\ giReturn.value = ValueRead(giInputs[Len(giInputs)], giArgs.secret)
        /\ giReturn.state = "returned" => ~IsRejected(giInputs[Len(giInputs)])

\* three rejected lines (a malformed id, an empty line, a line of blanks) and
\* a well-formed id: four prompts
C13_Witness ==
    /\ RequiredValidatedCall /\ giArgs.validator = "uuid" /\ ~giArgs.secret
    /\ giInputs = <<BadUuid, "", Blank, GoodUuid>>
    /\ giPrompts = 4
    /\ giReturn = [state |-> "returned", value |-> GoodUuid]

----------------------------------------------------------------------------
(* Further claims about the setup wizard (SpecWizard) *)

\* C14: in every configuration the wizard has saved, each field collected
\* with a validator satisfies that validator.
C14_SavedFieldsAreValid ==
    (wpc = "done" /\ wresult = "true") =>
        \A n \in DOMAIN Prompts :
            Prompts[n].validator # "none" =>
                /\ Prompts[n].name \in DOMAIN config.variables
                /\ Validate(Prompts[n].validator, config.variables[Prompts[n].name])

----------------------------------------------------------------------------
(* Claims about collect_peer_addresses (SpecPeer) *)

\* the addresses the returned string holds: the bare address, or the items
\* of the JSON array
DecodedIps(text) ==
    IF text = <<>> THEN <<>>
    ELSE IF JsonLoads(text).ok /\ JsonLoads(text).val.kind = "list"
    THEN [n \in DOMAIN JsonLoads(text).val.items |-> JsonLoads(text).val.items[n].units[1]]
    ELSE text

\* C15: the list of addresses collect_peer_addresses returns holds no
\* address twice, the addresses kept from the existing value included.
C15_NoDuplicateAddress ==
    ppc = "done" =>
        \A m, n \in DOMAIN DecodedIps(peerResult) :
            DecodedIps(peerResult)[m] = DecodedIps(peerResult)[n] => m = n

\* C16: every address in the value collect_peer_addresses returns is four
\* dot-separated decimal octets, each in 0..255.
C16_EveryAddressIsIpv4 ==
    ppc = "done" =>
        \A n \in DOMAIN DecodedIps(peerResult) : IsIpv4Literal(DecodedIps(peerResult)[n])

\* C17: one address is returned bare; two or more are returned as a JSON
\* array that decodes, by JSON parsing and by the extraction of lines 194-201
\* in a later session, to the addresses collected, in order: those kept, then
\* those appended.
C17_EncodingRoundTrips ==
    (ppc = "done" /\ peerIps # <<>>) =>
        /\ peerIps = phist.kept \o phist.appended
        /\ Len(peerIps) = 1 => peerResult = <<peerIps[1]>>
        /\ Len(peerIps) >= 2 =>
              /\ JsonLoads(peerResult).ok /\ JsonLoads(peerResult).val.kind = "list"
              /\ DecodedIps(peerResult) = peerIps
              /\ ExistingIps(peerResult) = peerIps

----------------------------------------------------------------------------
(* Claims about the variable validator (SpecVal) *)

\* the elements of a list
Elements(list) == { list[n] : n \in DOMAIN list }

\* the keys the readable scripts reference
ReferencedKeys ==
    UNION { ReferencesOf(scriptFiles[n].text) :
              n \in { m \in DOMAIN scriptFiles : scriptFiles[m].readable } }

\* C18: when the validator exits, present and missing are disjoint, together
\* they are the keys extracted from the scripts, a key is present exactly
\* when the merged variables and secrets hold it, the exit status is 1
\* exactly when a key is missing and 0 otherwise; no step changes the
\* configuration.
C18_ValidatorPartitionsKeys ==
    /\ [][valDoc' = valDoc]_vars
    /\ [](vpc = "done" =>
            /\ Elements(present) \cap Elements(missing) = {}
            /\ Elements(present) \cup Elements(missing) = ReferencedKeys
            /\ \A var \in ReferencedKeys :
                  var \in Elements(present) <=> \E k \in Keys(configVars) : var = <<k>>
            /\ (valDoc.kind = "map" /\ valDoc.variables.kind \in {"map", "missing"}
                   /\ valDoc.secrets.kind \in {"map", "missing"}) =>
                  Keys(configVars) = Keys(valDoc.variables.items) \cup Keys(valDoc.secrets.items)
            /\ vexit = (IF missing # <<>> THEN 1 ELSE 0))

\* scripts that reference target_location and undefined_key, a configuration
\* that defines target_location only
C18_Witness ==
    /\ vpc = "done"
    /\ ReferencedKeys = { <<"target_location">>, <<"undefined_key">> }
    /\ Keys(configVars) = {"target_location"}
    /\ present = << <<"target_location">> >>
    /\ missing = << <<"undefined_key">> >>
    /\ vexit = 1

----------------------------------------------------------------------------
\* the answer at the mode prompt was the default one: nothing but Enter
DefaultAnswer == rpc \notin {"idle", "ask"} /\ StripLine(rhist.answer) = ""

\* main has returned after the loop over the files
RunOver == rpc = "done"

\* C19: the renamer is in dry-run mode by default: after a run whose mode
\* prompt was answered with the empty default, and after every run with
\* dry_run in effect, every target file is what it was before the run.
C19_DryRunByDefault ==
    (RunOver /\ (DefaultAnswer \/ renDryRun)) => renFiles = rhist.files0

\* C20: the renamer never rewrites a file in part: at every point of a run each
\* target file holds either its whole original content or the whole content
\* with every replacement made, and a file whose read failed is not written.
C20_NeverPartiallyRewritten ==
    \A n \in 1..Len(renFiles) :
        /\ renFiles[n].data \in {rhist.files0[n].data, RenameAll(rhist.files0[n].data)}
        /\ n \in rhist.readFailed => renFiles[n] = rhist.files0[n]

----------------------------------------------------------------------------
\* save_configuration has written the whole of self.config to the file
SaveCompleted == whist.saveStarted /\ ~whist.writeFailed /\ diskConfig = File(Serialize(config))

\* C21: run_wizard always returns: True exactly when save_configuration has
\* completed, and False on every cancel or error from the first prompt on;
\* no exception escapes it, so that main exits with 0 or 1.
C21_ExitStatusTellsSave ==
    wpc = "done" =>
        /\ wresult \in {"true", "false"}
        /\ wresult = "true" <=> SaveCompleted

----------------------------------------------------------------------------
\* the file of the diagnostic decodes and parses as a mapping that holds the
\* sections variables and secrets
IsTwoSectionMapping(file) ==
    /\ file.exists /\ file.data # <<>>
    /\ LET r == DiagReadWith(file.data, 1)
           p == ParseYaml(StripBom(r.text))
       IN r.ok /\ p.ok /\ p.kind = "map" /\ HasSection(p, "variables") /\ HasSection(p, "secrets")

\* C22: when main returns, the diagnostic exits with 0 if and only if the file
\* exists, is not empty, decodes and parses as a mapping with both top-level
\* sections variables and secrets; in every other case it exits with 1.
C22_ExitZeroIffTwoSections ==
    dpc = "done" =>
        /\ diagExit \in {0, 1}
        /\ diagExit = 0 <=> IsTwoSectionMapping(diagFile)

----------------------------------------------------------------------------
\* the keys of KeyOrder that no configure_* section of the wizard assigns
UnpromptedKeys == {"source_hostname"}

\* the configuration in the file after the save
SavedConfig == ParseConfig(diskConfig.data)

\* C23: the wizard merges with the existing file: after a completed save, every
\* key of the existing variables or secrets that no section prompts for is in
\* the saved configuration with its value unchanged.
C23_UnpromptedKeysKept ==
    (wpc = "done" /\ wresult = "true") =>
        \A k \in UnpromptedKeys :
            /\ k \in DOMAIN existing.variables =>
                  k \in DOMAIN SavedConfig.variables /\ SavedConfig.variables[k] = existing.variables[k]
            /\ k \in DOMAIN existing.secrets =>
                  k \in DOMAIN SavedConfig.secrets /\ SavedConfig.secrets[k] = existing.secrets[k]

----------------------------------------------------------------------------
\* the value is made of five groups of hexadecimal characters of the lengths
\* 8-4-4-4-12, joined by hyphens, and of nothing else
IsCanonicalUuid(value) ==
    LET groups == Split(value, HYPHEN)
    IN /\ Len(groups) = Len(UuidGroups)
       /\ \A g \in DOMAIN groups :
             /\ Len(groups[g]) = UuidGroups[g]
             /\ \A i \in DOMAIN groups[g] : groups[g][i] \in HexChars

\* C24: validate_uuid returns for every value of hexadecimal groups of the
\* lengths 8-4-4-4-12 in any letter case, and raises ValueError for every
\* value that misses a group, has a group of another length, or holds a
\* character that is not hexadecimal.
C24_UuidAcceptedIffCanonical ==
    /\ uuidResult = "returned" => IsCanonicalUuid(uuidValue)
    /\ uuidResult = "raised" => ~IsCanonicalUuid(uuidValue)

----------------------------------------------------------------------------
\* lines 52-66: data after the iteration for one item of all_vars
AfterItem(d, key, value) ==
    IF key = PEERS /\ ContainsSeq(d, Placeholder(PEERS))
    THEN LET parsed_addrs == JsonLoads(Str(value))
         IN IF parsed_addrs.ok /\ parsed_addrs.val.kind = "list"
            THEN Replace(d, Wrapped(key), JsonDumps(parsed_addrs.val, FALSE, 0))
            ELSE Replace(d, Placeholder(key), Str(value))
    ELSE Replace(d, Placeholder(key), Str(value))

\* lines 52-66: data after the loop over the items vs from item n on
RECURSIVE AfterItems(_, _, _)
AfterItems(d, vs, n) ==
    IF n > Len(vs) THEN d ELSE AfterItems(AfterItem(d, vs[n][1], vs[n][2]), vs, n + 1)

\* lines 68-77: the string returned for data
Returned(d, m) ==
    IF m = "body"
    THEN LET parsed == JsonLoads(d)
         IN IF parsed.ok THEN JsonDumps(parsed.val, TRUE, 0) ELSE d
    ELSE d

\* _substitute(t, vs, m)
Substitute(t, vs, m) == Returned(AfterItems(t, vs, 1), m)

\* the items of vs in the opposite iteration order
Reversed(vs) == [n \in DOMAIN vs |-> vs[Len(vs) + 1 - n]]

\* C25: the string _substitute returns is the one it returns for the same
\* template, mode and items iterated in any other order.
C25_OrderIndependent ==
    spc = "done" => subResult = Substitute(template, Reversed(allVars), mode)

----------------------------------------------------------------------------
\* a step of the collection loop: one line was typed at its prompt
EntryStep == ppc = "collect" /\ peerEntries' = peerEntries + 1

\* the line typed in the step, and whether it is a new address
EntryIsNew == InetAton(phist'.last) /\ \A n \in DOMAIN peerIps : peerIps[n] # phist'.last

\* the lines get_input returns the empty string for
EndsCollection(line) == line = "" \/ Lower(line) = "skip"

\* what an iteration does with an entry that does not end the loop
EntryHandled ==
    IF EntryIsNew
    THEN peerIps' = Append(peerIps, phist'.last) /\ ppc' = "collect"
    ELSE peerIps' = peerIps /\ ppc' = "collect"

\* C26 as stated: in the collection loop only an empty line ends collection;
\* an entry that fails validation or is already in the working list leaves
\* the list unchanged and is followed by another prompt; an accepted entry is
\* appended at the end of the list and collection continues.
C26_OnlyEmptyLineEnds ==
    [][EntryStep =>
         IF phist'.last = ""
         THEN ppc' # "collect" /\ peerIps' = peerIps
         ELSE EntryHandled]_vars

\* C26 amended: the empty line and the word 'skip' end collection; every other
\* entry is handled as stated.
C26_EmptyOrSkipEnds ==
    [][EntryStep =>
         IF EndsCollection(phist'.last)
         THEN ppc' # "collect" /\ peerIps' = peerIps
         ELSE EntryHandled]_vars

\* collection went on after an accepted and a refused entry and was ended by
\* the word 'skip'
C26_Witness ==
    /\ ppc = "done" /\ phist.last = "skip"
    /\ phist.kept = <<>> /\ Len(phist.appended) = 1 /\ peerEntries = 3

----------------------------------------------------------------------------
\* C27: a required field is never stored empty: a call of get_input with
\* required=True returns a string that is not empty, whatever the current
\* value and the lines typed.
C27_RequiredNeverEmpty ==
    (giArgs.required /\ giReturn.state = "returned") => giReturn.value # ""

----------------------------------------------------------------------------
\* the working lists the collection loop can build: one or two different
\* addresses that validate_ip_address accepts
AcceptedIps == {IP1, IP2, PlaceholderIp, ShortIp}
CollectedLists ==
    { <<a>> : a \in AcceptedIps }
    \cup { <<ab[1], ab[2]>> : ab \in { p \in AcceptedIps \X AcceptedIps : p[1] # p[2] } }

\* the values of source_peer_addresses a run of the wizard can have saved
\* with an address in it
SavedPeers == { StrValue(EncodeIps(ips)) : ips \in CollectedLists }

\* C28: a re-run of the wizard on its own output, every prompt answered with
\* an empty line, keeps source_peer_addresses as it is in the file.
C28_RerunKeepsPeers ==
    (ppc = "done" /\ phist.allEmpty /\ currentPeers \in SavedPeers) =>
        peerResult = currentPeers.units

----------------------------------------------------------------------------
\* the file as it was before the first run of the repair tool
BeforeFirstRun == IF fixRuns = 1 THEN fhist.run.runStart ELSE fhist.first.before

\* every run of the repair tool so far has returned True
AllRunsSucceeded ==
    fpc = "done" /\ fixResult = "true" /\ (fixRuns > 1 => fhist.first.result = "true")

\* C29: after one or more successful runs of auto_fix_yaml_file on the same
\* file, the .backup file holds the content the file had before the first run.
C29_BackupHoldsOriginal ==
    AllRunsSucceeded => fixBackup = BeforeFirstRun

----------------------------------------------------------------------------
\* C30: wizard backups are never overwritten: a backup that an earlier save
\* left in config_backups, in the same clock second or before, is still there
\* with its content after a later save.
C30_BackupsNeverOverwritten ==
    (wpc = "done" /\ wresult = "true") =>
        \A t \in Timestamps :
            whist.backups0[t].exists => diskBackups[t] = whist.backups0[t]

====
